---- MODULE Spec2Model ----
(***************************************************************************)
(* A model of the redaction engine of censgate/redact:                     *)
(*   - the conflict resolver of Engine (resolveOverlappingRedactions),     *)
(*   - the token vault of Engine (RedactText / RestoreText / Cleanup),     *)
(*   - the encrypting vault of RedactionEngine (AES-GCM, key rotation).    *)
(***************************************************************************)
EXTENDS Integers, Sequences, FiniteSets, TLC

\* ------------------------------------------------------------------ bounds
\* Largest offset of a candidate span handed to the resolver.
MaxPos == 3
\* Largest number of candidates handed to the resolver.
MaxCands == 3
\* Longest request text.
MaxTextLen == 2
\* Last instant of the clock.
MaxTime == 2
\* Most tokens minted in one run.
MaxMints == 2
\* Highest key version a run rotates to.
MaxKeyVersion == 2
\* Number of goroutines calling into one engine.
NumGoroutines == 2

\* --------------------------------------------------------------- variables
VARIABLES
    redactions,   \* resolver: the candidate list as supplied by the caller
    work,         \* resolver: the list the loop ranges over (sorted in place)
    resolved,     \* resolver: the accepted list
    ri,           \* resolver: index of the next candidate of the outer loop
    rpc,          \* resolver: position in resolveOverlappingRedactions
    before,       \* resolver: the accepted list before the last iteration
    compared,     \* resolver: number of accepted entries the last scan compared
    tokens,       \* Engine.tokens: token id -> TokenInfo
    now,          \* the clock time.Now() reads
    issued,       \* how many token ids crypto/rand has produced so far
    minted,       \* history: token id -> what was minted under it
    ret,          \* the last call and what it returned
    masterKey,    \* RedactionEngine.masterKey
    keyVersion,   \* RedactionEngine.keyVersion
    arg,          \* the inputs of the call under study
    out,          \* what the calls under study returned
    patternTable, \* Engine.patterns, once AddCustomPattern may change it
    goroutines,   \* concurrency: each goroutine's call and position in it
    mutex,        \* concurrency: Engine.mutex
    slot,         \* concurrency: the entry of Engine.tokens under one token id
    policyStore,  \* InMemoryPolicyStore.policies, the entry of one tenant
    tenantPolicies \* TenantAwareEngine.tenantPolicies, the entry of that tenant

resolverVars == <<redactions, work, resolved, ri, rpc, before, compared>>
keyVars == <<masterKey, keyVersion>>
vaultVars == <<tokens, now, issued, minted, ret, masterKey, keyVersion>>
callVars == <<arg, out, patternTable>>
tenantVars == <<policyStore, tenantPolicies>>
lockVars == <<goroutines, mutex, slot, policyStore, tenantPolicies>>
vars == <<redactions, work, resolved, ri, rpc, before, compared,
          tokens, now, issued, minted, ret, masterKey, keyVersion,
          arg, out, patternTable, goroutines, mutex, slot,
          policyStore, tenantPolicies>>

\* ------------------------------------------------------------------- types
TypeEmail == "email"
TypePhone == "phone"
TypeCreditCard == "credit_card"
TypeSSN == "ssn"
TypeIPAddress == "ip_address"
TypeDate == "date"
TypeTime == "time"
TypeZipCode == "zip_code"
TypeBTCAddress == "btc_address"
TypeMD5Hex == "md5_hex"
TypeCustom == "custom"
TypeUKNationalInsurance == "uk_national_insurance"
TypeUKNHSNumber == "uk_nhs_number"
TypeUKPostcode == "uk_postcode"
TypeUKPhoneNumber == "uk_phone_number"
TypeUKMobileNumber == "uk_mobile_number"
TypeUKSortCode == "uk_sort_code"
TypeUKIBAN == "uk_iban"
TypeUKCompanyNumber == "uk_company_number"
TypeUKDrivingLicense == "uk_driving_license"
TypeUKPassportNumber == "uk_passport_number"

Range(s) == {s[i] : i \in 1..Len(s)}

\* ------------------------------------------------------- conflict resolver
\* A Redaction, reduced to the fields the resolver reads.
Redaction(t, s, e) == [Type |-> t, Start |-> s, End |-> e]

redactionsOverlap(a, b) == a.Start < b.End /\ b.Start < a.End

getTypePriority(redactionType) ==
    CASE redactionType \in {TypeUKNationalInsurance, TypeUKNHSNumber, TypeUKPassportNumber} -> 100
      [] redactionType \in {TypeUKDrivingLicense, TypeUKIBAN, TypeUKSortCode} -> 90
      [] redactionType \in {TypeUKPhoneNumber, TypeUKMobileNumber, TypeUKCompanyNumber} -> 80
      [] redactionType = TypeUKPostcode -> 70
      [] redactionType \in {TypeSSN, TypeCreditCard} -> 60
      [] redactionType \in {TypeEmail, TypePhone} -> 50
      [] redactionType \in {TypeIPAddress, TypeDate, TypeTime} -> 40
      [] OTHER -> 30

shouldReplaceRedaction_ShorterWins(new, existing) ==
    LET newLength == new.End - new.Start
        existingLength == existing.End - existing.Start
    IN  IF newLength # existingLength
        THEN newLength < existingLength
        ELSE getTypePriority(new.Type) > getTypePriority(existing.Type)

shouldReplaceRedaction_LengthOnly(new, existing) ==
    (new.End - new.Start) > (existing.End - existing.Start)

shouldReplaceRedaction(new, existing) ==
    LET newLength == new.End - new.Start
        existingLength == existing.End - existing.Start
    IN  IF newLength # existingLength
        THEN newLength > existingLength
        ELSE getTypePriority(new.Type) > getTypePriority(existing.Type)

Swap(s, i, j) == [s EXCEPT ![i] = s[j], ![j] = s[i]]

\* The inner loop of the exchange sort: j runs from i+1 to the end.
RECURSIVE SortInner(_, _, _)
SortInner(s, i, j) ==
    IF j > Len(s) THEN s
    ELSE IF s[i].Start > s[j].Start
         THEN SortInner(Swap(s, i, j), i, j + 1)
         ELSE SortInner(s, i, j + 1)

RECURSIVE SortOuter(_, _)
SortOuter(s, i) ==
    IF i > Len(s) THEN s ELSE SortOuter(SortInner(s, i, i + 1), i + 1)

SortByStart_Unsorted(s) == s

SortByStart(s) == SortOuter(s, 1)

\* The indices of the accepted entries that overlap the incoming candidate.
Overlapping(acc, current) ==
    {i \in 1..Len(acc) : redactionsOverlap(current, acc[i])}

Min(S) == CHOOSE x \in S : \A y \in S : x <= y

\* The scan gives up after its first comparison, overlap or not.
ScanAccepted_FirstComparisonOnly(acc, current) ==
    IF acc # <<>> /\ redactionsOverlap(current, acc[1])
    THEN IF shouldReplaceRedaction(current, acc[1])
         THEN [acc EXCEPT ![1] = current]
         ELSE acc
    ELSE Append(acc, current)

\* One iteration of the outer loop: scan the accepted list up to the first
\* overlap (the scan breaks there), replace that entry or keep it; append the
\* candidate when nothing overlapped.
ScanAccepted(acc, current) ==
    LET ov == Overlapping(acc, current)
    IN  IF ov = {} THEN Append(acc, current)
        ELSE LET i == Min(ov)
             IN  IF shouldReplaceRedaction(current, acc[i])
                 THEN [acc EXCEPT ![i] = current]
                 ELSE acc

\* How many accepted entries that scan compared with the candidate.
ScanLength(acc, current) ==
    LET ov == Overlapping(acc, current)
    IN  IF ov = {} THEN Len(acc) ELSE Min(ov)

RECURSIVE ScanAll(_, _, _)
ScanAll(s, i, acc) ==
    IF i > Len(s) THEN acc ELSE ScanAll(s, i + 1, ScanAccepted(acc, s[i]))

\* resolveOverlappingRedactions as a function of its argument.
resolveOverlappingRedactions(rs) ==
    IF Len(rs) <= 1 THEN rs ELSE ScanAll(SortByStart(rs), 1, <<>>)

RECURSIVE SeqsUpTo(_, _)
SeqsUpTo(S, n) ==
    IF n = 0 THEN {<<>>}
    ELSE LET shorter == SeqsUpTo(S, n - 1)
         IN  shorter \cup {Append(q, x) : q \in {p \in shorter : Len(p) = n - 1}, x \in S}

\* ------------------------------------------------------------ text, regexp
\* A text is a sequence of characters. "5" stands for a digit, "x" for any
\* character no built-in pattern matches.
Chars == {"5", "x"}

Texts == SeqsUpTo(Chars, MaxTextLen)

\* The source of a regular expression that does not compile (an unbalanced
\* bracket, as in the test of AddCustomPattern).
BadRegex == <<"[">>

\* regexp.Compile: an error for a malformed source; otherwise a matcher. The
\* expressions of the model are literals: one matches exactly its own text.
Compile(source) == [ok |-> source # BadRegex, lit |-> source]

\* Regexp.FindAllStringIndex(text, -1): the leftmost matches, each search
\* starting where the previous match ended; offsets count from 0, End is
\* exclusive.
RECURSIVE FindFrom(_, _, _)
FindFrom(lit, text, pos) ==
    IF pos + Len(lit) > Len(text) THEN <<>>
    ELSE IF SubSeq(text, pos + 1, pos + Len(lit)) = lit
         THEN <<[Start |-> pos, End |-> pos + Len(lit)]>> \o
              FindFrom(lit, text, pos + Len(lit))
         ELSE FindFrom(lit, text, pos + 1)

FindAllStringIndex(lit, text) == FindFrom(lit, text, 0)

\* text[start:end] of Go, offsets from 0.
Slice(text, start, end) == SubSeq(text, start + 1, end)

\* strings.Contains(text, part): part is a run of consecutive characters of text.
Occurs(part, text) ==
    \E p \in 0..(Len(text) - Len(part)) : Slice(text, p, p + Len(part)) = part

\* ------------------------------------------------------------------ Engine
\* Engine.maxTextLength and Engine.defaultTTL, as NewEngineWithConfig sets them.
maxTextLength == 1
defaultTTL == 1

\* Engine.patterns: a zip-code-like pattern and an SSN-like pattern whose
\* matches contain matches of the former.
patterns == [t \in {TypeZipCode, TypeSSN} |->
                IF t = TypeZipCode THEN <<"5">> ELSE <<"5", "5">>]

\* The orders in which a range over the map patterns may visit its keys.
Orders(S) ==
    {o \in [1..Cardinality(S) -> S] : \A i, j \in 1..Cardinality(S) : i # j => o[i] # o[j]}

generateReplacement(redactionType) ==
    CASE redactionType = TypeEmail -> <<"[", "EMAIL_REDACTED", "]">>
      [] redactionType = TypePhone -> <<"[", "PHONE_REDACTED", "]">>
      [] redactionType = TypeSSN -> <<"[", "SSN_REDACTED", "]">>
      [] redactionType = TypeZipCode -> <<"[", "ZIP_CODE_REDACTED", "]">>
      [] redactionType = TypeBTCAddress -> <<"[", "BTC_ADDRESS_REDACTED", "]">>
      [] redactionType = TypeMD5Hex -> <<"[", "MD5_HASH_REDACTED", "]">>
      [] redactionType = TypeUKPhoneNumber -> <<"[", "UK_PHONE_NUMBER_REDACTED", "]">>
      [] OTHER -> <<"[", "REDACTED", "]">>

\* The candidates one pattern of the table contributes (Confidence and Context, which no
\* decision reads, are left out of the record).
MatchesOf(table, redactionType, text) ==
    LET m == FindAllStringIndex(table[redactionType], text)
    IN  [i \in 1..Len(m) |->
            [Type |-> redactionType, Start |-> m[i].Start, End |-> m[i].End,
             Original |-> Slice(text, m[i].Start, m[i].End),
             Replacement |-> generateReplacement(redactionType)]]

RECURSIVE CollectAll(_, _, _, _)
CollectAll(table, order, k, text) ==
    IF k > Len(order) THEN <<>>
    ELSE MatchesOf(table, order[k], text) \o CollectAll(table, order, k + 1, text)

\* The exchange sort by Start, descending, that precedes the rewrite.
RECURSIVE SortDescInner(_, _, _)
SortDescInner(s, i, j) ==
    IF j > Len(s) THEN s
    ELSE IF s[i].Start < s[j].Start
         THEN SortDescInner(Swap(s, i, j), i, j + 1)
         ELSE SortDescInner(s, i, j + 1)

RECURSIVE SortDescOuter(_, _)
SortDescOuter(s, i) ==
    IF i > Len(s) THEN s ELSE SortDescOuter(SortDescInner(s, i, i + 1), i + 1)

SortByStartDesc_Unsorted(s) == s

SortByStartDesc(s) == SortDescOuter(s, 1)

\* The rewrite loop: each redaction in turn is spliced into the text.
RECURSIVE ApplyRedactions(_, _, _)
ApplyRedactions(rs, k, text) ==
    IF k > Len(rs) THEN text
    ELSE IF rs[k].Start >= 0 /\ rs[k].End <= Len(text)
         THEN ApplyRedactions(rs, k + 1,
                  Slice(text, 0, rs[k].Start) \o rs[k].Replacement \o
                  Slice(text, rs[k].End, Len(text)))
         ELSE ApplyRedactions(rs, k + 1, text)

redactTextInternal(table, text, order) ==
    LET allRedactions == CollectAll(table, order, 1, text)
        sorted == SortByStartDesc(resolveOverlappingRedactions(allRedactions))
    IN  [OriginalText |-> text,
         RedactedText |-> ApplyRedactions(sorted, 1, text),
         Redactions |-> sorted,
         Token |-> 0]

\* The redactions one custom pattern of the request adds: its matches in the
\* redacted text; a pattern that does not compile adds none.
CustomMatches(result, pattern) ==
    LET c == Compile(pattern.Pattern)
        m == IF c.ok THEN FindAllStringIndex(c.lit, result.RedactedText) ELSE <<>>
    IN  [i \in 1..Len(m) |->
            [Type |-> TypeCustom, Start |-> m[i].Start, End |-> m[i].End,
             Original |-> Slice(result.RedactedText, m[i].Start, m[i].End),
             Replacement |-> IF pattern.Replacement = <<>>
                             THEN <<"[", "CUSTOM_REDACTED", "]">>
                             ELSE pattern.Replacement]]

RECURSIVE applyCustomPatternsFrom(_, _, _)
applyCustomPatternsFrom(result, ps, k) ==
    IF k > Len(ps) THEN result
    ELSE applyCustomPatternsFrom(
             [result EXCEPT !.Redactions = @ \o CustomMatches(result, ps[k])],
             ps, k + 1)

applyCustomPatterns_StopsAtMalformed(result, ps) ==
    LET malformed == {i \in 1..Len(ps) : ~Compile(ps[i].Pattern).ok}
        n == IF malformed = {} THEN Len(ps)
             ELSE (CHOOSE i \in malformed : \A j \in malformed : i <= j) - 1
    IN  applyCustomPatternsFrom(result, SubSeq(ps, 1, n), 1)

applyCustomPatterns(result, ps) == applyCustomPatternsFrom(result, ps, 1)

\* ---- the token map
\* The token id "" of a Result without token.
NoToken == 0

ErrNone == "nil"
ErrCancelled == "context canceled"
ErrNilRequest == "redaction request cannot be nil"
ErrTooLong == "text length exceeds maximum allowed size"
ErrInvalidToken == "invalid or expired token"

TokenInfo_OfRedactedText(result, ttl, tm) ==
    [OriginalText |-> result.RedactedText,
     Type |-> result.Redactions[1].Type,
     Expires |-> tm + ttl]

\* The TokenInfo generateTokenWithTTL stores (Created, which nothing reads,
\* is left out).
TokenInfo(result, ttl, tm) ==
    [OriginalText |-> result.OriginalText,
     Type |-> result.Redactions[1].Type,
     Expires |-> tm + ttl]

generateTokenWithTTL_NotStored(tokenMap, token, result, ttl, tm) == tokenMap

\* re.tokens[token] = tokenInfo
generateTokenWithTTL(tokenMap, token, result, ttl, tm) ==
    [t \in DOMAIN tokenMap \cup {token} |->
        IF t = token THEN TokenInfo(result, ttl, tm) ELSE tokenMap[t]]

restoreTextInternal_ChecksExpiry(tokenMap, token, tm) ==
    IF token \notin DOMAIN tokenMap THEN [err |-> ErrInvalidToken, text |-> <<>>]
    ELSE IF tm > tokenMap[token].Expires THEN [err |-> "token has expired", text |-> <<>>]
    ELSE [err |-> ErrNone, text |-> <<tokenMap[token].OriginalText>>]

\* Engine.restoreTextInternal: the text of the record, whenever there is one.
restoreTextInternal(tokenMap, token, tm) ==
    IF token \notin DOMAIN tokenMap THEN [err |-> ErrInvalidToken, text |-> <<>>]
    ELSE [err |-> ErrNone, text |-> <<tokenMap[token].OriginalText>>]

IsExpired_AtExpiry(info, tm) == tm >= info.Expires

\* now.After(tokenInfo.Expires)
IsExpired(info, tm) == tm > info.Expires

ExpiredTokens(tokenMap, tm) == {t \in DOMAIN tokenMap : IsExpired(tokenMap[t], tm)}

\* The map CleanupExpiredTokens leaves.
Swept(tokenMap, tm) ==
    [t \in DOMAIN tokenMap \ ExpiredTokens(tokenMap, tm) |-> tokenMap[t]]

\* ---- the calls
CustomPatternLists ==
    { <<>>, <<[Pattern |-> <<"x">>, Replacement |-> <<>>]>> }

\* The ttl of a request: negative, zero (the default is used) or positive.
TTLs == {-1, 0, 1}

Requests ==
    [Text : Texts, Reversible : BOOLEAN, TTL : TTLs,
     CustomPatterns : CustomPatternLists]

\* A call's return. result and text are a pointer each: <<>> when nil, <<v>>
\* otherwise. reversible repeats the request's flag, token the argument of
\* RestoreText.
Return(op, err, reversible, result, token, text, removed) ==
    [op |-> op, err |-> err, reversible |-> reversible, result |-> result,
     token |-> token, text |-> text, removed |-> removed]

NoCall == Return("none", ErrNone, FALSE, <<>>, NoToken, <<>>, 0)

\* No call under study, no goroutine started.
NoCalls ==
    /\ arg = <<>>
    /\ out = <<>>
    /\ patternTable = patterns

\* No policy in the store, none cached.
NoTenants ==
    /\ policyStore = <<>>
    /\ tenantPolicies = <<>>

NoGoroutines ==
    /\ goroutines = <<>>
    /\ mutex = <<>>
    /\ slot = <<>>
    /\ NoTenants

ResolverIdle ==
    /\ redactions = <<>>
    /\ work = <<>>
    /\ resolved = <<>>
    /\ ri = 1
    /\ rpc = "idle"
    /\ before = <<>>
    /\ compared = 0

\* The key fields of an engine that has none.
NoKey == <<>>

\* NewEngineWithConfig: an empty token map. Engine holds no key.
VaultNew ==
    /\ tokens = <<>>
    /\ now = 0
    /\ issued = 0
    /\ minted = <<>>
    /\ ret = NoCall
    /\ masterKey = NoKey
    /\ keyVersion = 0

Init == ResolverIdle /\ VaultNew /\ NoCalls /\ NoGoroutines

\* Engine.RedactText failing before any work: a cancelled context, a nil
\* request, a text over the maximum length.
RedactTextRejected ==
    \E cancelled \in BOOLEAN, isNil \in BOOLEAN, length \in {Len(t) : t \in Texts} :
        LET err == IF cancelled THEN ErrCancelled
                   ELSE IF isNil THEN ErrNilRequest
                   ELSE IF length > maxTextLength THEN ErrTooLong
                   ELSE ErrNone
        IN  /\ err # ErrNone
            /\ ret' = Return("RedactText", err, FALSE, <<>>, NoToken, <<>>, 0)
            /\ UNCHANGED <<tokens, now, issued, minted>>
            /\ UNCHANGED resolverVars
            /\ UNCHANGED <<callVars, lockVars>>
            /\ UNCHANGED keyVars

\* Engine.RedactText.
RedactText ==
    \E request \in Requests, order \in Orders(DOMAIN patternTable) :
        LET base == redactTextInternal(patternTable, request.Text, order)
            result == IF Len(request.CustomPatterns) > 0
                      THEN applyCustomPatterns(base, request.CustomPatterns)
                      ELSE base
            mint == request.Reversible /\ Len(result.Redactions) > 0
            ttl == IF request.TTL = 0 THEN defaultTTL ELSE request.TTL
            token == issued + 1
        IN  /\ Len(request.Text) <= maxTextLength
            /\ mint => issued < MaxMints
            /\ IF mint
               THEN /\ tokens' = generateTokenWithTTL(tokens, token, result, ttl, now)
                    /\ issued' = token
                    /\ minted' = [t \in DOMAIN minted \cup {token} |->
                                     IF t = token
                                     THEN [Text |-> request.Text]
                                     ELSE minted[t]]
                    /\ ret' = Return("RedactText", ErrNone, request.Reversible,
                                     <<[result EXCEPT !.Token = token]>>,
                                     NoToken, <<>>, 0)
               ELSE /\ ret' = Return("RedactText", ErrNone, request.Reversible,
                                     <<result>>, NoToken, <<>>, 0)
                    /\ UNCHANGED <<tokens, issued, minted>>
            /\ UNCHANGED now
            /\ UNCHANGED resolverVars
            /\ UNCHANGED <<callVars, lockVars>>
            /\ UNCHANGED keyVars

\* Engine.RestoreText: the context is not consulted.
RestoreText ==
    \E token \in 0..MaxMints :
        LET r == restoreTextInternal(tokens, token, now)
        IN  /\ ret' = Return("RestoreText", r.err, FALSE, <<>>, token, r.text, 0)
            /\ UNCHANGED <<tokens, now, issued, minted>>
            /\ UNCHANGED resolverVars
            /\ UNCHANGED <<callVars, lockVars>>
            /\ UNCHANGED keyVars

\* Engine.CleanupExpiredTokens.
CleanupExpiredTokens ==
    /\ tokens' = Swept(tokens, now)
    /\ ret' = Return("CleanupExpiredTokens", ErrNone, FALSE, <<>>, NoToken, <<>>,
                     Cardinality(ExpiredTokens(tokens, now)))
    /\ UNCHANGED <<now, issued, minted>>
    /\ UNCHANGED resolverVars
    /\ UNCHANGED <<callVars, lockVars>>
    /\ UNCHANGED keyVars

\* Engine.RotateKeys: takes the lock and returns nil.
RotateKeys ==
    /\ ret' = Return("RotateKeys", ErrNone, FALSE, <<>>, NoToken, <<>>, 0)
    /\ UNCHANGED <<tokens, now, issued, minted>>
    /\ UNCHANGED resolverVars
    /\ UNCHANGED <<callVars, lockVars>>
    /\ UNCHANGED keyVars

\* Time passes.
Tick ==
    /\ now < MaxTime
    /\ now' = now + 1
    /\ UNCHANGED <<tokens, issued, minted, ret>>
    /\ UNCHANGED resolverVars
    /\ UNCHANGED <<callVars, lockVars>>
    /\ UNCHANGED keyVars

Next ==
    \/ RedactTextRejected
    \/ RedactText
    \/ RestoreText
    \/ CleanupExpiredTokens
    \/ RotateKeys
    \/ Tick

Spec == Init /\ [][Next]_vars

\* ---- the resolver, step by step
ResolverTypes == {TypePhone, TypeUKPhoneNumber}

Candidates ==
    {r \in [Type : ResolverTypes, Start : 0..MaxPos, End : 0..MaxPos] :
        r.Start < r.End}

ResolverInit ==
    /\ redactions \in SeqsUpTo(Candidates, MaxCands)
    /\ work = redactions
    /\ resolved = <<>>
    /\ ri = 1
    /\ rpc = "start"
    /\ before = <<>>
    /\ compared = 0
    /\ VaultNew
    /\ NoCalls
    /\ NoGoroutines

\* len(redactions) <= 1: the argument is returned as it is.
ResolveTrivial ==
    /\ rpc = "start"
    /\ Len(redactions) <= 1
    /\ resolved' = redactions
    /\ rpc' = "done"
    /\ UNCHANGED <<redactions, work, ri, before, compared>>
    /\ UNCHANGED vaultVars
    /\ UNCHANGED <<callVars, lockVars>>

ResolveSort ==
    /\ rpc = "start"
    /\ Len(redactions) > 1
    /\ work' = SortByStart(redactions)
    /\ rpc' = "scan"
    /\ UNCHANGED <<redactions, resolved, ri, before, compared>>
    /\ UNCHANGED vaultVars
    /\ UNCHANGED <<callVars, lockVars>>

ResolveScan ==
    /\ rpc = "scan"
    /\ ri <= Len(work)
    /\ before' = resolved
    /\ compared' = ScanLength(resolved, work[ri])
    /\ resolved' = ScanAccepted(resolved, work[ri])
    /\ ri' = ri + 1
    /\ UNCHANGED <<redactions, work, rpc>>
    /\ UNCHANGED vaultVars
    /\ UNCHANGED <<callVars, lockVars>>

ResolveReturn ==
    /\ rpc = "scan"
    /\ ri > Len(work)
    /\ rpc' = "done"
    /\ UNCHANGED <<redactions, work, resolved, ri, before, compared>>
    /\ UNCHANGED vaultVars
    /\ UNCHANGED <<callVars, lockVars>>

ResolverNext ==
    \/ ResolveTrivial
    \/ ResolveSort
    \/ ResolveScan
    \/ ResolveReturn

SpecResolver == ResolverInit /\ [][ResolverNext]_vars

\* ------------------------------------------------- RedactionEngine (AES-GCM)
\* The values crypto/rand yields for a salt and for a nonce.
Salts == {0, 1}
Nonces == {0, 1}

\* The texts handed to RedactionEngine.RedactText: one without a match, one
\* with a match.
SecureTexts == {<<>>, <<"5">>}

\* The lifetime generateSecureToken gives a token: 24 hours, one unit of the
\* clock.
tokenLifetime == 1

ErrExpired == "token has expired"
ErrDecrypt == "failed to decrypt token data"

\* fmt.Sprintf("redactly-master-key-v%d", version)
Passphrase(version) == <<"redactly-master-key-v", version>>

\* pbkdf2.Key(passphrase, salt, 10000, 32, sha256.New): a 32-byte key that
\* passphrase and salt determine, two inputs never sharing a key.
pbkdf2Key(passphrase, salt) == [Passphrase |-> passphrase, Salt |-> salt]

\* encryptData: gcm.Seal under the master key. aes.NewCipher accepts every
\* 32-byte key, so the error return (and the fallback token of
\* generateSecureToken) does not occur.
encryptData(plaintext, nonce, key) ==
    [Key |-> key, Nonce |-> nonce, Plain |-> plaintext]

decryptData_NoAuthentication(ciphertext, nonce, key) ==
    [ok |-> TRUE, text |-> ciphertext.Plain]

\* decryptData: gcm.Open under the master key authenticates the ciphertext
\* against key and nonce.
decryptData(ciphertext, nonce, key) ==
    IF ciphertext.Key = key /\ ciphertext.Nonce = nonce
    THEN [ok |-> TRUE, text |-> ciphertext.Plain]
    ELSE [ok |-> FALSE, text |-> <<>>]

\* The TokenInfo generateSecureToken stores (Created, which nothing reads, is
\* left out).
SecureTokenInfo(text, redactionType, nonce, key, version, tm) ==
    [EncryptedData |-> encryptData(text, nonce, key),
     RedactionType |-> redactionType,
     Expires |-> tm + tokenLifetime,
     KeyVersion |-> version,
     Nonce |-> nonce]

generateSecureToken(tokenMap, token, info) ==
    [t \in DOMAIN tokenMap \cup {token} |->
        IF t = token THEN info ELSE tokenMap[t]]

\* NewRedactionEngine: key version 1, a master key derived with a random salt,
\* an empty token map.
RedactionEngineNew ==
    /\ tokens = <<>>
    /\ now = 0
    /\ issued = 0
    /\ minted = <<>>
    /\ ret = NoCall
    /\ keyVersion = 1
    /\ \E salt \in Salts : masterKey = pbkdf2Key(Passphrase(1), salt)

SecureInit == ResolverIdle /\ RedactionEngineNew /\ NoCalls /\ NoGoroutines

\* RedactionEngine.RedactText: a token is minted when a redaction was found
\* (the rewrite of the text, which no token operation reads, is left out).
RedactionEngine_RedactText ==
    \E text \in SecureTexts, order \in Orders(DOMAIN patterns), nonce \in Nonces :
        LET found == CollectAll(patterns, order, 1, text)
            token == issued + 1
        IN  /\ Len(found) > 0 => issued < MaxMints
            /\ IF Len(found) > 0
               THEN /\ tokens' = generateSecureToken(tokens, token,
                                     SecureTokenInfo(text, found[1].Type, nonce,
                                                     masterKey, keyVersion, now))
                    /\ issued' = token
                    /\ minted' = [t \in DOMAIN minted \cup {token} |->
                                     IF t = token THEN [Text |-> text] ELSE minted[t]]
                    /\ ret' = Return("RedactText", ErrNone, TRUE,
                                     <<[OriginalText |-> text, Token |-> token]>>,
                                     NoToken, <<>>, 0)
               ELSE /\ ret' = Return("RedactText", ErrNone, TRUE,
                                     <<[OriginalText |-> text, Token |-> NoToken]>>,
                                     NoToken, <<>>, 0)
                    /\ UNCHANGED <<tokens, issued, minted>>
            /\ UNCHANGED <<now, masterKey, keyVersion>>
            /\ UNCHANGED resolverVars
            /\ UNCHANGED <<callVars, lockVars>>

RedactionEngine_RestoreText ==
    \E token \in 0..MaxMints :
        LET opened == decryptData(tokens[token].EncryptedData, tokens[token].Nonce,
                                  masterKey)
            err == IF token \notin DOMAIN tokens THEN ErrInvalidToken
                   ELSE IF now > tokens[token].Expires THEN ErrExpired
                   ELSE IF ~opened.ok THEN ErrDecrypt
                   ELSE ErrNone
        IN  /\ ret' = Return("RestoreText", err, FALSE, <<>>, token,
                             IF err = ErrNone THEN <<opened.text>> ELSE <<>>, 0)
            /\ UNCHANGED <<tokens, now, issued, minted, masterKey, keyVersion>>
            /\ UNCHANGED resolverVars
            /\ UNCHANGED <<callVars, lockVars>>

\* RedactionEngine.CleanupExpiredTokens: the bytes it zeroes belong to the
\* records it deletes.
RedactionEngine_CleanupExpiredTokens ==
    /\ tokens' = Swept(tokens, now)
    /\ ret' = Return("CleanupExpiredTokens", ErrNone, FALSE, <<>>, NoToken, <<>>,
                     Cardinality(ExpiredTokens(tokens, now)))
    /\ UNCHANGED <<now, issued, minted, masterKey, keyVersion>>
    /\ UNCHANGED resolverVars
    /\ UNCHANGED <<callVars, lockVars>>

RedactionEngine_RotateKeys_ReEncrypting ==
    /\ keyVersion < MaxKeyVersion
    /\ \E salt \in Salts :
          /\ masterKey' = pbkdf2Key(Passphrase(keyVersion + 1), salt)
          /\ tokens' = [t \in DOMAIN tokens |->
                [tokens[t] EXCEPT !.EncryptedData = encryptData(@.Plain, @.Nonce, masterKey'),
                                  !.KeyVersion = keyVersion + 1]]
    /\ keyVersion' = keyVersion + 1
    /\ ret' = Return("RotateKeys", ErrNone, FALSE, <<>>, NoToken, <<>>, 0)
    /\ UNCHANGED <<now, issued, minted>>
    /\ UNCHANGED resolverVars
    /\ UNCHANGED <<callVars, lockVars>>

\* RedactionEngine.RotateKeys: a key derived from the next passphrase and a
\* fresh salt replaces the master key; the token map is not touched.
RedactionEngine_RotateKeys ==
    /\ keyVersion < MaxKeyVersion
    /\ \E salt \in Salts :
          masterKey' = pbkdf2Key(Passphrase(keyVersion + 1), salt)
    /\ keyVersion' = keyVersion + 1
    /\ ret' = Return("RotateKeys", ErrNone, FALSE, <<>>, NoToken, <<>>, 0)
    /\ UNCHANGED <<tokens, now, issued, minted>>
    /\ UNCHANGED resolverVars
    /\ UNCHANGED <<callVars, lockVars>>

SecureNext ==
    \/ RedactionEngine_RedactText
    \/ RedactionEngine_RestoreText
    \/ RedactionEngine_CleanupExpiredTokens
    \/ RedactionEngine_RotateKeys
    \/ Tick

SpecSecure == SecureInit /\ [][SecureNext]_vars

\* ------------------------------------------------- Engine under goroutines
\* Each goroutine makes one call after another. A call is followed through the
\* places where it takes or releases Engine.mutex and where it reads or writes
\* one of the two maps, Engine.tokens and Engine.patterns. An access to a map
\* takes time: it begins in one step and ends in another. slot is the entry of
\* Engine.tokens under one token id: "absent", "present", or "torn" while a
\* write to it is under way.
Goroutines == 1..NumGoroutines

EngineCalls ==
    {"RedactText", "RestoreText", "CleanupExpiredTokens", "GetRedactionStats",
     "AddCustomPattern", "GetCapabilities"}

Goroutine(call, pc, seen) == [call |-> call, pc |-> pc, seen |-> seen]

\* The positions at which a goroutine is reading, or writing, a map.
ReadsTokens(g) == goroutines[g].pc \in {"loading", "counting", "sweeping"}
WritesTokens(g) == goroutines[g].pc \in {"storing", "deleting"}
ReadsPatterns(g) == goroutines[g].pc \in {"ranging", "counting"}
WritesPatterns(g) == goroutines[g].pc = "assigning"

At(g, pc) == goroutines[g].pc = pc
Goto(g, pc) == goroutines' = [goroutines EXCEPT ![g].pc = pc]

NoWriter == 0

CanLock_Unguarded(m) == TRUE

\* sync.RWMutex.Lock proceeds when nobody holds the lock.
CanLock(m) == m.writer = NoWriter /\ m.readers = {}

CanRLock_Unguarded(m) == TRUE

\* sync.RWMutex.RLock proceeds when no writer holds the lock.
CanRLock(m) == m.writer = NoWriter

LocksInit ==
    /\ goroutines = [g \in Goroutines |-> Goroutine("none", "idle", "nothing")]
    /\ mutex = [writer |-> NoWriter, readers |-> {}]
    /\ slot = "absent"
    /\ NoTenants
    /\ ResolverIdle
    /\ VaultNew
    /\ NoCalls

\* A goroutine enters a call.
Enter(g) ==
    /\ At(g, "idle")
    /\ \E call \in EngineCalls :
          goroutines' = [goroutines EXCEPT ![g] =
              Goroutine(call,
                        CASE call = "RedactText" -> "range"
                          [] call = "GetCapabilities" -> "range"
                          [] call = "RestoreText" -> "RLock"
                          [] call = "GetRedactionStats" -> "RLock"
                          [] call = "CleanupExpiredTokens" -> "Lock"
                          [] call = "AddCustomPattern" -> "compile",
                        "nothing")]
    /\ UNCHANGED <<mutex, slot>>
    /\ UNCHANGED <<resolverVars, vaultVars, callVars, tenantVars>>

\* redactTextInternal and GetCapabilities range over re.patterns, holding no
\* lock.
RangeBegin(g) ==
    /\ At(g, "range")
    /\ Goto(g, "ranging")
    /\ UNCHANGED <<mutex, slot>>
    /\ UNCHANGED <<resolverVars, vaultVars, callVars, tenantVars>>

\* The range is over. GetCapabilities returns; RedactText returns when no token
\* is to be minted and goes on to generateTokenWithTTL otherwise.
RangeEnd(g) ==
    /\ At(g, "ranging")
    /\ \/ Goto(g, "idle")
       \/ goroutines[g].call = "RedactText" /\ Goto(g, "Lock")
    /\ UNCHANGED <<mutex, slot>>
    /\ UNCHANGED <<resolverVars, vaultVars, callVars, tenantVars>>

\* re.mutex.Lock() of generateTokenWithTTL and of CleanupExpiredTokens.
Lock(g) ==
    /\ At(g, "Lock")
    /\ CanLock(mutex)
    /\ mutex' = [mutex EXCEPT !.writer = g]
    /\ Goto(g, IF goroutines[g].call = "RedactText" THEN "store" ELSE "sweep")
    /\ UNCHANGED slot
    /\ UNCHANGED <<resolverVars, vaultVars, callVars, tenantVars>>

\* re.tokens[token] = tokenInfo
StoreBegin(g) ==
    /\ At(g, "store")
    /\ slot' = "torn"
    /\ Goto(g, "storing")
    /\ UNCHANGED mutex
    /\ UNCHANGED <<resolverVars, vaultVars, callVars, tenantVars>>

StoreEnd(g) ==
    /\ At(g, "storing")
    /\ slot' = "present"
    /\ Goto(g, "Unlock")
    /\ UNCHANGED mutex
    /\ UNCHANGED <<resolverVars, vaultVars, callVars, tenantVars>>

\* CleanupExpiredTokens ranges over re.tokens; the entry may have expired.
SweepBegin(g) ==
    /\ At(g, "sweep")
    /\ Goto(g, "sweeping")
    /\ UNCHANGED <<mutex, slot>>
    /\ UNCHANGED <<resolverVars, vaultVars, callVars, tenantVars>>

\* The entry is absent or has not expired: nothing to delete.
SweepEnd(g) ==
    /\ At(g, "sweeping")
    /\ Goto(g, "Unlock")
    /\ UNCHANGED <<mutex, slot>>
    /\ UNCHANGED <<resolverVars, vaultVars, callVars, tenantVars>>

\* delete(re.tokens, token) of an expired entry.
DeleteBegin(g) ==
    /\ At(g, "sweeping")
    /\ slot = "present"
    /\ slot' = "torn"
    /\ Goto(g, "deleting")
    /\ UNCHANGED mutex
    /\ UNCHANGED <<resolverVars, vaultVars, callVars, tenantVars>>

DeleteEnd(g) ==
    /\ At(g, "deleting")
    /\ slot' = "absent"
    /\ Goto(g, "Unlock")
    /\ UNCHANGED mutex
    /\ UNCHANGED <<resolverVars, vaultVars, callVars, tenantVars>>

\* re.mutex.Unlock()
Unlock(g) ==
    /\ At(g, "Unlock")
    /\ mutex' = [mutex EXCEPT !.writer = NoWriter]
    /\ Goto(g, "idle")
    /\ UNCHANGED slot
    /\ UNCHANGED <<resolverVars, vaultVars, callVars, tenantVars>>

\* re.mutex.RLock() of restoreTextInternal and of GetRedactionStats.
RLock(g) ==
    /\ At(g, "RLock")
    /\ CanRLock(mutex)
    /\ mutex' = [mutex EXCEPT !.readers = @ \cup {g}]
    /\ Goto(g, IF goroutines[g].call = "RestoreText" THEN "load" ELSE "count")
    /\ UNCHANGED slot
    /\ UNCHANGED <<resolverVars, vaultVars, callVars, tenantVars>>

\* tokenInfo, exists := re.tokens[token]
LoadBegin(g) ==
    /\ At(g, "load")
    /\ Goto(g, "loading")
    /\ UNCHANGED <<mutex, slot>>
    /\ UNCHANGED <<resolverVars, vaultVars, callVars, tenantVars>>

LoadEnd(g) ==
    /\ At(g, "loading")
    /\ goroutines' = [goroutines EXCEPT ![g].pc = "RUnlock", ![g].seen = slot]
    /\ UNCHANGED <<mutex, slot>>
    /\ UNCHANGED <<resolverVars, vaultVars, callVars, tenantVars>>

\* GetRedactionStats: len(re.tokens), len(re.patterns), range re.tokens.
CountBegin(g) ==
    /\ At(g, "count")
    /\ Goto(g, "counting")
    /\ UNCHANGED <<mutex, slot>>
    /\ UNCHANGED <<resolverVars, vaultVars, callVars, tenantVars>>

CountEnd(g) ==
    /\ At(g, "counting")
    /\ goroutines' = [goroutines EXCEPT ![g].pc = "RUnlock", ![g].seen = slot]
    /\ UNCHANGED <<mutex, slot>>
    /\ UNCHANGED <<resolverVars, vaultVars, callVars, tenantVars>>

\* re.mutex.RUnlock()
RUnlock(g) ==
    /\ At(g, "RUnlock")
    /\ mutex' = [mutex EXCEPT !.readers = @ \ {g}]
    /\ Goto(g, "idle")
    /\ UNCHANGED slot
    /\ UNCHANGED <<resolverVars, vaultVars, callVars, tenantVars>>

\* AddCustomPattern: regexp.Compile fails and the call returns the error.
CompileFails(g) ==
    /\ At(g, "compile")
    /\ Goto(g, "idle")
    /\ UNCHANGED <<mutex, slot>>
    /\ UNCHANGED <<resolverVars, vaultVars, callVars, tenantVars>>

\* AddCustomPattern: re.patterns[Type(name)] = compiled, holding no lock.
AssignBegin(g) ==
    /\ At(g, "compile")
    /\ Goto(g, "assigning")
    /\ UNCHANGED <<mutex, slot>>
    /\ UNCHANGED <<resolverVars, vaultVars, callVars, tenantVars>>

AssignEnd(g) ==
    /\ At(g, "assigning")
    /\ Goto(g, "idle")
    /\ UNCHANGED <<mutex, slot>>
    /\ UNCHANGED <<resolverVars, vaultVars, callVars, tenantVars>>

\* Two goroutines are in Engine.patterns at once, one of them writing.
PatternRace ==
    \E g, h \in Goroutines :
        g # h /\ WritesPatterns(g) /\ (ReadsPatterns(h) \/ WritesPatterns(h))

\* Two goroutines are in Engine.tokens at once, one of them writing.
TokenRace ==
    \E g, h \in Goroutines :
        g # h /\ WritesTokens(g) /\ (ReadsTokens(h) \/ WritesTokens(h))

\* The Go runtime may detect a concurrent map access and end the process
\* ("fatal error: concurrent map iteration and map write").
ConcurrentMapFault ==
    /\ PatternRace \/ TokenRace
    /\ goroutines' = [g \in Goroutines |-> [goroutines[g] EXCEPT !.pc = "fatal"]]
    /\ UNCHANGED <<mutex, slot>>
    /\ UNCHANGED <<resolverVars, vaultVars, callVars, tenantVars>>

LocksNext ==
    \/ \E g \in Goroutines : Enter(g)
    \/ \E g \in Goroutines : RangeBegin(g)
    \/ \E g \in Goroutines : RangeEnd(g)
    \/ \E g \in Goroutines : Lock(g)
    \/ \E g \in Goroutines : StoreBegin(g)
    \/ \E g \in Goroutines : StoreEnd(g)
    \/ \E g \in Goroutines : SweepBegin(g)
    \/ \E g \in Goroutines : SweepEnd(g)
    \/ \E g \in Goroutines : DeleteBegin(g)
    \/ \E g \in Goroutines : DeleteEnd(g)
    \/ \E g \in Goroutines : Unlock(g)
    \/ \E g \in Goroutines : RLock(g)
    \/ \E g \in Goroutines : LoadBegin(g)
    \/ \E g \in Goroutines : LoadEnd(g)
    \/ \E g \in Goroutines : CountBegin(g)
    \/ \E g \in Goroutines : CountEnd(g)
    \/ \E g \in Goroutines : RUnlock(g)
    \/ \E g \in Goroutines : CompileFails(g)
    \/ \E g \in Goroutines : AssignBegin(g)
    \/ \E g \in Goroutines : AssignEnd(g)
    \/ ConcurrentMapFault

SpecLocks == LocksInit /\ [][LocksNext]_vars

\* ---- RedactionEngine: minting a token while RotateKeys runs
\* generateSecureToken reads re.masterKey (in encryptData) and re.keyVersion
\* without the mutex and takes it only to store the record; RotateKeys holds
\* the mutex while it assigns re.masterKey and then increments re.keyVersion.
\* Each read and each assignment is a step.
RotateInit ==
    /\ goroutines = [g \in Goroutines |-> Goroutine("none", "idle", <<>>)]
    /\ mutex = [writer |-> NoWriter, readers |-> {}]
    /\ slot = <<>>
    /\ NoTenants
    /\ ResolverIdle
    /\ RedactionEngineNew
    /\ NoCalls

RotateGoto(g, call, pc, seen) ==
    /\ goroutines' = [goroutines EXCEPT ![g] = Goroutine(call, pc, seen)]
    /\ UNCHANGED <<slot, tenantVars, now, minted, ret>>
    /\ UNCHANGED <<resolverVars, callVars>>

\* encryptData: gcm.Seal under the master key as this read finds it.
MintEncrypt(g) ==
    /\ At(g, "idle")
    /\ issued < MaxMints
    /\ \E nonce \in Nonces :
          RotateGoto(g, "generateSecureToken", "version",
                     [key |-> masterKey, nonce |-> nonce])
    /\ UNCHANGED <<mutex, tokens, issued, masterKey, keyVersion>>

\* KeyVersion: re.keyVersion, as this read finds it.
MintVersion(g) ==
    /\ At(g, "version")
    /\ RotateGoto(g, "generateSecureToken", "store",
                  SecureTokenInfo(<<"5">>, TypeZipCode, goroutines[g].seen.nonce,
                                  goroutines[g].seen.key, keyVersion, now))
    /\ UNCHANGED <<mutex, tokens, issued, masterKey, keyVersion>>

\* re.mutex.Lock(); re.tokens[token] = tokenInfo; re.mutex.Unlock()
MintStore(g) ==
    /\ At(g, "store")
    /\ CanLock(mutex)
    /\ tokens' = generateSecureToken(tokens, issued + 1, goroutines[g].seen)
    /\ issued' = issued + 1
    /\ RotateGoto(g, "returned", "idle", <<>>)
    /\ UNCHANGED <<mutex, masterKey, keyVersion>>

\* RotateKeys: re.mutex.Lock()
RotateLock(g) ==
    /\ At(g, "idle")
    /\ keyVersion < MaxKeyVersion
    /\ CanLock(mutex)
    /\ mutex' = [mutex EXCEPT !.writer = g]
    /\ RotateGoto(g, "RotateKeys", "masterKey", <<>>)
    /\ UNCHANGED <<tokens, issued, masterKey, keyVersion>>

\* re.masterKey = newMasterKey
RotateMasterKey(g) ==
    /\ At(g, "masterKey")
    /\ \E salt \in Salts :
          masterKey' = pbkdf2Key(Passphrase(keyVersion + 1), salt)
    /\ RotateGoto(g, "RotateKeys", "keyVersion", <<>>)
    /\ UNCHANGED <<mutex, tokens, issued, keyVersion>>

\* re.keyVersion++, then the deferred re.mutex.Unlock()
RotateKeyVersion(g) ==
    /\ At(g, "keyVersion")
    /\ keyVersion' = keyVersion + 1
    /\ mutex' = [mutex EXCEPT !.writer = NoWriter]
    /\ RotateGoto(g, "returned", "idle", <<>>)
    /\ UNCHANGED <<tokens, issued, masterKey>>

RotateNext ==
    \/ \E g \in Goroutines : MintEncrypt(g)
    \/ \E g \in Goroutines : MintVersion(g)
    \/ \E g \in Goroutines : MintStore(g)
    \/ \E g \in Goroutines : RotateLock(g)
    \/ \E g \in Goroutines : RotateMasterKey(g)
    \/ \E g \in Goroutines : RotateKeyVersion(g)

SpecRotate == RotateInit /\ [][RotateNext]_vars

\* ---- DefaultStrategyRegistry under concurrent calls
\* r.mu is a sync.RWMutex: readers counts the read locks each goroutine
\* holds, writer is the goroutine that holds the write lock, pending the
\* goroutine whose Lock waits for the readers to leave. From the moment a
\* Lock waits, RLock blocks, so that readers cannot starve the writer.
RegistryCalls == {"Register", "GetDefaultStrategy", "GetBestStrategy"}

RegistryInit ==
    /\ goroutines = [g \in Goroutines |-> Goroutine("none", "idle", 0)]
    /\ mutex = [writer |-> NoWriter, pending |-> NoWriter,
                readers |-> [g \in Goroutines |-> 0]]
    /\ slot = <<>>
    /\ NoTenants
    /\ ResolverIdle
    /\ VaultNew
    /\ NoCalls

\* No goroutine holds a read lock.
NoReaders(m) == \A g \in Goroutines : m.readers[g] = 0

RegistryGoto(g, call, pc) ==
    /\ goroutines' = [goroutines EXCEPT ![g] = Goroutine(call, pc, 0)]
    /\ UNCHANGED <<slot, tenantVars>>
    /\ UNCHANGED <<resolverVars, vaultVars, callVars>>

\* A goroutine calls Register with a strategy, GetDefaultStrategy, or
\* GetBestStrategy with a request.
RegistryEnter(g) ==
    /\ At(g, "idle")
    /\ \E call \in RegistryCalls :
          RegistryGoto(g, call, IF call = "Register" THEN "Lock" ELSE "RLock")
    /\ UNCHANGED mutex

\* r.mu.Lock() of Register, first half: the writer excludes other writers
\* and announces itself.
RegistryLockBegin(g) ==
    /\ At(g, "Lock")
    /\ mutex.writer = NoWriter
    /\ mutex.pending = NoWriter
    /\ mutex' = [mutex EXCEPT !.pending = g]
    /\ RegistryGoto(g, "Register", "Locking")

\* r.mu.Lock(), second half: the readers have left.
RegistryLock(g) ==
    /\ At(g, "Locking")
    /\ NoReaders(mutex)
    /\ mutex' = [mutex EXCEPT !.pending = NoWriter, !.writer = g]
    /\ RegistryGoto(g, "Register", "Unlock")

\* r.strategies[name] = strategy and the deferred r.mu.Unlock().
RegistryUnlock(g) ==
    /\ At(g, "Unlock")
    /\ mutex' = [mutex EXCEPT !.writer = NoWriter]
    /\ RegistryGoto(g, "returned", "idle")

\* r.mu.RLock(): of GetDefaultStrategy, of GetBestStrategy, and of the
\* GetDefaultStrategy that GetBestStrategy calls while it holds its own.
RegistryRLock(g) ==
    /\ At(g, "RLock") \/ At(g, "GetDefaultStrategy")
    /\ mutex.writer = NoWriter
    /\ mutex.pending = NoWriter
    /\ mutex' = [mutex EXCEPT !.readers[g] = @ + 1]
    /\ RegistryGoto(g, goroutines[g].call,
                    IF goroutines[g].call = "GetBestStrategy" /\ At(g, "RLock")
                    THEN "GetDefaultStrategy"
                    ELSE "RUnlock")

\* The deferred r.mu.RUnlock(): of the inner GetDefaultStrategy first, which
\* returns into GetBestStrategy, then of the call itself.
RegistryRUnlock(g) ==
    /\ At(g, "RUnlock")
    /\ mutex' = [mutex EXCEPT !.readers[g] = @ - 1]
    /\ IF mutex.readers[g] > 1
       THEN RegistryGoto(g, goroutines[g].call, "RUnlock")
       ELSE RegistryGoto(g, "returned", "idle")

RegistryNext ==
    \/ \E g \in Goroutines : RegistryEnter(g)
    \/ \E g \in Goroutines : RegistryLockBegin(g)
    \/ \E g \in Goroutines : RegistryLock(g)
    \/ \E g \in Goroutines : RegistryUnlock(g)
    \/ \E g \in Goroutines : RegistryRLock(g)
    \/ \E g \in Goroutines : RegistryRUnlock(g)

\* Every goroutine that can take a step eventually takes one.
SpecRegistry ==
    /\ RegistryInit
    /\ [][RegistryNext]_vars
    /\ \A g \in Goroutines :
          WF_vars(RegistryLockBegin(g) \/ RegistryLock(g) \/ RegistryUnlock(g) \/
                  RegistryRLock(g) \/ RegistryRUnlock(g))

\* ---- the policy cache of the TenantAwareEngine under concurrent calls
\* One tenant. A *TenantPolicy is <<>> when there is none, <<p>> otherwise.
\* Each critical section of tenantMutex, and each call of the store, which
\* has a mutex of its own, is one step; the steps of different goroutines
\* interleave in between.
TenantPolicyValues == {"p1", "p2"}

TenantCalls ==
    {"GetTenantPolicy", "SetTenantPolicy", "DeleteTenantPolicy", "RefreshTenantPolicy"}

TenantInit ==
    /\ goroutines = [g \in Goroutines |-> Goroutine("none", "idle", <<>>)]
    /\ mutex = <<>>
    /\ slot = <<>>
    /\ policyStore \in {<<>>} \cup {<<p>> : p \in TenantPolicyValues}
    /\ tenantPolicies = <<>>
    /\ ResolverIdle
    /\ VaultNew
    /\ NoCalls

TenantStep(g, call, pc, seen) ==
    /\ goroutines' = [goroutines EXCEPT ![g] = Goroutine(call, pc, seen)]
    /\ UNCHANGED <<mutex, slot>>
    /\ UNCHANGED <<resolverVars, vaultVars, callVars>>

\* A goroutine calls one of the four methods; seen is the policy it holds:
\* the argument of SetTenantPolicy, later what it read.
TenantEnter(g) ==
    /\ At(g, "idle")
    /\ \E call \in TenantCalls, policy \in TenantPolicyValues :
          CASE call = "GetTenantPolicy" -> TenantStep(g, call, "lookup", <<>>)
            [] call = "SetTenantPolicy" -> TenantStep(g, call, "persist", <<policy>>)
            [] call = "DeleteTenantPolicy" -> TenantStep(g, call, "remove", <<>>)
            [] OTHER -> TenantStep(g, call, "load", <<>>)
    /\ UNCHANGED tenantVars

\* GetTenantPolicy: the lookup in the cache under the read lock; a hit
\* returns the cached policy.
CacheLookup(g) ==
    /\ At(g, "lookup")
    /\ IF tenantPolicies # <<>>
       THEN TenantStep(g, "returned", "idle", tenantPolicies)
       ELSE TenantStep(g, goroutines[g].call, "load", <<>>)
    /\ UNCHANGED tenantVars

\* policyStore.GetTenantPolicy, of GetTenantPolicy and RefreshTenantPolicy: an
\* error, with which the call returns, when the store has no policy.
StoreGet(g) ==
    /\ At(g, "load")
    /\ IF policyStore = <<>>
       THEN TenantStep(g, "failed", "idle", <<>>)
       ELSE TenantStep(g, goroutines[g].call, "fill", policyStore)
    /\ UNCHANGED tenantVars

\* policyStore.SetTenantPolicy.
StoreSet(g) ==
    /\ At(g, "persist")
    /\ policyStore' = goroutines[g].seen
    /\ TenantStep(g, goroutines[g].call, "fill", goroutines[g].seen)
    /\ UNCHANGED tenantPolicies

\* policyStore.DeleteTenantPolicy.
StoreDelete(g) ==
    /\ At(g, "remove")
    /\ policyStore' = <<>>
    /\ TenantStep(g, goroutines[g].call, "evict", <<>>)
    /\ UNCHANGED tenantPolicies

\* tare.tenantPolicies[tenantID] = policy under the write lock, then return.
CacheFill(g) ==
    /\ At(g, "fill")
    /\ tenantPolicies' = goroutines[g].seen
    /\ TenantStep(g, "returned", "idle", goroutines[g].seen)
    /\ UNCHANGED policyStore

\* delete(tare.tenantPolicies, tenantID) under the write lock, then return.
CacheEvict(g) ==
    /\ At(g, "evict")
    /\ tenantPolicies' = <<>>
    /\ TenantStep(g, "returned", "idle", <<>>)
    /\ UNCHANGED policyStore

TenantNext ==
    \/ \E g \in Goroutines : TenantEnter(g)
    \/ \E g \in Goroutines : CacheLookup(g)
    \/ \E g \in Goroutines : StoreGet(g)
    \/ \E g \in Goroutines : StoreSet(g)
    \/ \E g \in Goroutines : StoreDelete(g)
    \/ \E g \in Goroutines : CacheFill(g)
    \/ \E g \in Goroutines : CacheEvict(g)

SpecTenant == TenantInit /\ [][TenantNext]_vars

\* ------------------------------------------------------ PolicyAwareEngine
ModeReplace == "replace"
ModeMask == "mask"
ModeRemove == "remove"
ModeTokenize == "tokenize"
ModeHash == "hash"
ModeEncrypt == "encrypt"
ModeLLM == "llm"

\* A PolicyRule. Patterns are regular expression sources, Fields names of
\* fields, Conditions the rule's conditions.
PolicyRule(name, rulePatterns, fields, mode, priority, enabled) ==
    [Name |-> name, Patterns |-> rulePatterns, Fields |-> fields, Mode |-> mode,
     Priority |-> priority, Enabled |-> enabled, Conditions |-> <<>>]

\* The nil *Context of a request that carries none.
NoContext == <<>>

\* generatePolicyReplacement: the name of the rule is written in upper case
\* between the brackets; a mask is as long as the match.
generatePolicyReplacement(mode, original, ruleName) ==
    CASE mode = ModeReplace -> <<"[", "POLICY", ruleName, "REDACTED", "]">>
      [] mode = ModeMask -> [i \in 1..Len(original) |-> "*"]
      [] mode = ModeRemove -> <<>>
      [] mode = ModeTokenize -> <<"[", "TOKEN", ruleName, "]">>
      [] mode = ModeHash -> <<"[", "HASH", ruleName, "]">>
      [] mode = ModeEncrypt -> <<"[", "ENCRYPTED", ruleName, "]">>
      [] OTHER -> <<"[", ruleName, "REDACTED", "]">>

\* The loop of applyPatternToResult from match k on. The matches were all
\* found before the first splice; each is used as an index into the text as
\* it is by then. A slice expression whose end lies beyond the text panics.
RECURSIVE applyMatchesFrom(_, _, _, _)
applyMatchesFrom(result, matches, k, rule) ==
    IF k > Len(matches) THEN [panicked |-> FALSE, result |-> result]
    ELSE IF matches[k].End > Len(result.RedactedText)
         THEN [panicked |-> TRUE, result |-> result]
         ELSE LET start == matches[k].Start
                  end == matches[k].End
                  original == Slice(result.RedactedText, start, end)
                  replacement == generatePolicyReplacement(rule.Mode, original, rule.Name)
                  redaction == [Type |-> TypeCustom, Start |-> start, End |-> end,
                                Original |-> original, Replacement |-> replacement]
              IN  applyMatchesFrom(
                      [result EXCEPT
                          !.Redactions = Append(@, redaction),
                          !.RedactedText = Slice(@, 0, start) \o replacement \o
                                           Slice(@, end, Len(@))],
                      matches, k + 1, rule)

applyPatternToResult(result, lit, rule) ==
    applyMatchesFrom(result, FindAllStringIndex(lit, result.RedactedText), 1, rule)

\* A *Context is NoContext or <<c>> with c a Context. The strings of a Context
\* are sequences of characters, as texts are; Metadata is a function from
\* keys to values.
Context(source, field, userRole, metadata) ==
    [Source |-> source, Field |-> field, ContentType |-> <<>>, Language |-> <<>>,
     UserRole |-> userRole, ComplianceReqs |-> <<>>, Metadata |-> metadata]

\* The values of type interface{}: the nil interface, a string, a []string
\* and a []interface{}.
NilValue == <<>>
StringValue(str) == <<"string", str>>
StringsValue(items) == <<"[]string", items>>
ListValue(items) == <<"[]interface {}", items>>
IsA(kind, value) == Len(value) = 2 /\ value[1] = kind

PolicyCondition(field, operator, value) ==
    [Field |-> field, Operator |-> operator, Value |-> value]

\* extractFieldValue: the field of the context with that name, else the
\* entry of Metadata with that key, nil when there is none.
extractFieldValue(field, context) ==
    CASE field = "source" -> StringValue(context.Source)
      [] field = "field" -> StringValue(context.Field)
      [] field = "content_type" -> StringValue(context.ContentType)
      [] field = "language" -> StringValue(context.Language)
      [] field = "user_role" -> StringValue(context.UserRole)
      [] field = "compliance_reqs" -> StringsValue(context.ComplianceReqs)
      [] OTHER -> IF field \in DOMAIN context.Metadata
                  THEN context.Metadata[field]
                  ELSE NilValue

evaluateContainsOperator(fieldValue, expectedValue) ==
    \/ /\ IsA("string", fieldValue)
       /\ IsA("string", expectedValue)
       /\ Occurs(expectedValue[2], fieldValue[2])
    \/ /\ IsA("[]string", fieldValue)
       /\ IsA("string", expectedValue)
       /\ \E i \in 1..Len(fieldValue[2]) : fieldValue[2][i] = expectedValue[2]

evaluateRegexOperator(fieldValue, expectedValue) ==
    /\ IsA("string", fieldValue)
    /\ IsA("string", expectedValue)
    /\ Compile(expectedValue[2]).ok
    /\ FindAllStringIndex(Compile(expectedValue[2]).lit, fieldValue[2]) # <<>>

evaluateInOperator(fieldValue, expectedValue) ==
    /\ IsA("[]interface {}", expectedValue)
    /\ \E i \in 1..Len(expectedValue[2]) : fieldValue = expectedValue[2][i]

\* evaluateOperator. == and != compare the two interface values: the types
\* and the contents.
evaluateOperator(operator, fieldValue, expectedValue) ==
    CASE operator = "eq" -> fieldValue = expectedValue
      [] operator = "ne" -> fieldValue # expectedValue
      [] operator = "contains" -> evaluateContainsOperator(fieldValue, expectedValue)
      [] operator = "regex" -> evaluateRegexOperator(fieldValue, expectedValue)
      [] operator = "in" -> evaluateInOperator(fieldValue, expectedValue)
      [] OTHER -> FALSE

\* evaluateCondition: no condition holds of a nil context.
evaluateCondition(condition, context) ==
    /\ context # NoContext
    /\ evaluateOperator(condition.Operator,
                        extractFieldValue(condition.Field, context[1]),
                        condition.Value)

evaluateRuleConditions_AnyCondition(conditions, context) ==
    \/ Len(conditions) = 0
    \/ \E i \in 1..Len(conditions) : evaluateCondition(conditions[i], context)

\* evaluateRuleConditions: no condition, or all of them hold.
evaluateRuleConditions(conditions, context) ==
    \/ Len(conditions) = 0
    \/ \A i \in 1..Len(conditions) : evaluateCondition(conditions[i], context)

\* shouldApplyToField: every field applies when the context is nil; else the
\* field of the rule is compared with the Field of the context.
shouldApplyToField(field, context) ==
    \/ context = NoContext
    \/ /\ context # NoContext
       /\ CASE field \in {"messages", "messages.content", "content"} ->
                   context[1].Field \in {<<"messages.content">>, <<"content">>}
            [] field = "metadata" -> context[1].Field = <<"metadata">>
            [] OTHER -> context[1].Field = <<field>>

\* The loops of applyPolicyRulesToResult, flattened: the (rule, pattern,
\* field) triples in the order the loops visit them.
RuleSteps(rules, context) ==
    LET stepsOfPattern(rule, p) ==
            [f \in 1..Len(rule.Fields) |-> [rule |-> rule, pattern |-> rule.Patterns[p],
                                           field |-> rule.Fields[f]]]
        RECURSIVE stepsOfRule(_, _)
        stepsOfRule(rule, p) ==
            IF p > Len(rule.Patterns) THEN <<>>
            ELSE stepsOfPattern(rule, p) \o stepsOfRule(rule, p + 1)
        RECURSIVE stepsFrom(_)
        stepsFrom(r) ==
            IF r > Len(rules) THEN <<>>
            ELSE IF rules[r].Enabled /\ evaluateRuleConditions(rules[r].Conditions, context)
                 THEN stepsOfRule(rules[r], 1) \o stepsFrom(r + 1)
                 ELSE stepsFrom(r + 1)
    IN  stepsFrom(1)

RECURSIVE applyStepsFrom(_, _, _, _)
applyStepsFrom(result, steps, k, context) ==
    IF k > Len(steps) THEN [panicked |-> FALSE, result |-> result]
    ELSE LET c == Compile(steps[k].pattern)
         IN  IF c.ok /\ shouldApplyToField(steps[k].field, context)
             THEN LET applied == applyPatternToResult(result, c.lit, steps[k].rule)
                  IN  IF applied.panicked THEN applied
                      ELSE applyStepsFrom(applied.result, steps, k + 1, context)
             ELSE applyStepsFrom(result, steps, k + 1, context)

applyPolicyRulesToResult(result, rules, context) ==
    applyStepsFrom(result, RuleSteps(rules, context), 1, context)

\* ---- the entry points of the providers, one call after another
ErrNilPolicyRequest == "policy redaction request cannot be nil"
ErrNilEnginePolicyRequest == "policy request cannot be nil"
ErrBaseRedactionCancelled == "base redaction failed: context canceled"
ErrEmptyTenantID == "tenant ID cannot be empty"
ErrInvalidRegex == "invalid regex pattern"
PanicNilDereference == "panic: invalid memory address or nil pointer dereference"
PanicSliceBounds == "panic: slice bounds out of range"

\* The errors for which errors.Is(err, context.Canceled) holds.
IsCancellation(err) == err \in {ErrCancelled, ErrBaseRedactionCancelled}

\* The requests of the calls: a text of each length up to one over the
\* maximum, the default ttl, no custom patterns, no mode and no context.
ProviderRequests ==
    {r \in [Text : {<<>>, <<"5">>, <<"x">>, <<"5", "5">>}, Reversible : BOOLEAN,
            TTL : {0}, CustomPatterns : {<<>>}, Mode : {""}, Context : {NoContext}] :
        Len(r.Text) <= maxTextLength + 1}

\* A pointer is <<>> when nil, <<v>> otherwise.
Pointers(S) == {<<>>} \cup {<<v>> : v \in S}

PolicyRuleLists ==
    { <<>>,
      <<PolicyRule("R", <<(<<"x">>)>>, <<"content">>, ModeReplace, 0, TRUE)>> }

\* A tenant's policy: the store holds none, or one with a rule, a custom
\* pattern, a default mode and compliance requirements.
TenantPolicies ==
    Pointers({[Rules |-> <<PolicyRule("T", <<(<<"x">>)>>, <<"content">>, ModeMask, 0, TRUE)>>,
               CustomPatterns |-> <<[Pattern |-> <<"x">>, Replacement |-> <<>>]>>,
               DefaultMode |-> ModeMask, ComplianceReqs |-> <<"GDPR">>,
               Version |-> "v1"]})

\* What a call was given.
Arg(op, cancelled, isNil, length, valid) ==
    [op |-> op, cancelled |-> cancelled, isNil |-> isNil, length |-> length,
     valid |-> valid]

TextTooLong_Unchecked(text) == FALSE

\* len(request.Text) > re.maxTextLength
TextTooLong(text) == Len(text) > maxTextLength

\* Engine.RedactText as a function of the engine's state and its arguments:
\* the error, the result, and the token map and token count it leaves.
Engine_RedactText(table, tokenMap, n, tm, cancelled, request, order) ==
    LET failed(err) == [err |-> err, result |-> <<>>, tokens |-> tokenMap, issued |-> n]
    IN  IF cancelled THEN failed(ErrCancelled)
        ELSE IF request = <<>> THEN failed(ErrNilRequest)
        ELSE IF TextTooLong(request[1].Text) THEN failed(ErrTooLong)
        ELSE LET base == redactTextInternal(table, request[1].Text, order)
                 result == IF Len(request[1].CustomPatterns) > 0
                           THEN applyCustomPatterns(base, request[1].CustomPatterns)
                           ELSE base
                 ttl == IF request[1].TTL = 0 THEN defaultTTL ELSE request[1].TTL
             IN  IF request[1].Reversible /\ Len(result.Redactions) > 0
                 THEN [err |-> ErrNone,
                       result |-> <<[result EXCEPT !.Token = n + 1]>>,
                       tokens |-> generateTokenWithTTL(tokenMap, n + 1, result, ttl, tm),
                       issued |-> n + 1]
                 ELSE [err |-> ErrNone, result |-> <<result>>,
                       tokens |-> tokenMap, issued |-> n]

\* The iteration orders that matter to a call: one when the call returns
\* before it ranges over the table.
OrdersOf(table, cancelled, request) ==
    IF cancelled \/ request = <<>> \/ TextTooLong(request[1].Text)
    THEN {CHOOSE o \in Orders(DOMAIN table) : TRUE}
    ELSE Orders(DOMAIN table)

LengthOf(request) == IF request = <<>> THEN 0 ELSE Len(request[1].Text)

\* PolicyAwareEngine.ApplyPolicyRules as a function. request is the embedded
\* *Request of the PolicyRequest.
PolicyAwareEngine_ApplyPolicyRules(table, tokenMap, n, tm, cancelled, request, rules, order) ==
    LET failed(err) == [err |-> err, result |-> <<>>, tokens |-> tokenMap, issued |-> n]
    IN  IF request = <<>> THEN failed(ErrNilPolicyRequest)
        ELSE IF TextTooLong(request[1].Text) THEN failed(ErrTooLong)
        ELSE LET base == Engine_RedactText(table, tokenMap, n, tm, cancelled, request, order)
             IN  IF base.err # ErrNone THEN failed(ErrBaseRedactionCancelled)
                 ELSE IF Len(rules) > 0
                 THEN LET applied == applyPolicyRulesToResult(base.result[1], rules,
                                                              request[1].Context)
                      IN  IF applied.panicked
                          THEN [base EXCEPT !.err = PanicSliceBounds, !.result = <<>>]
                          ELSE [base EXCEPT !.result = <<applied.result>>]
                 ELSE base

\* A PolicyAwareEngine with the built-in patterns and an empty token map.
ProviderInit ==
    /\ ResolverIdle
    /\ VaultNew
    /\ NoGoroutines
    /\ patternTable = patterns
    /\ arg = Arg("none", FALSE, FALSE, 0, TRUE)
    /\ out = <<>>

\* left is what the call leaves in out.
ReturnsLeaving(op, a, outcome, left) ==
    /\ outcome.issued <= MaxMints
    /\ arg' = a
    /\ tokens' = outcome.tokens
    /\ issued' = outcome.issued
    /\ ret' = Return(op, outcome.err, FALSE, outcome.result, NoToken, <<>>, 0)
    /\ out' = left
    /\ UNCHANGED <<now, minted, masterKey, keyVersion, patternTable>>
    /\ UNCHANGED <<resolverVars, lockVars>>

\* A call that writes to nothing of its caller's.
Returns(op, a, outcome) == ReturnsLeaving(op, a, outcome, <<>>)

\* Engine.AddCustomPattern.
AddCustomPattern_StoresUncompiled(table, name, pattern) ==
    [t \in DOMAIN table \cup {name} |-> IF t = name THEN pattern ELSE table[t]]

AddCustomPattern(table, name, pattern) ==
    IF Compile(pattern).ok
    THEN [t \in DOMAIN table \cup {name} |-> IF t = name THEN Compile(pattern).lit ELSE table[t]]
    ELSE table

Provider_AddCustomPattern ==
    \E name \in {"custom_a"}, pattern \in {<<"x">>, BadRegex} :
        /\ arg' = Arg("AddCustomPattern", FALSE, FALSE, 0, Compile(pattern).ok)
        /\ patternTable' = AddCustomPattern(patternTable, name, pattern)
        /\ ret' = Return("AddCustomPattern",
                         IF Compile(pattern).ok THEN ErrNone ELSE ErrInvalidRegex,
                         FALSE, <<>>, NoToken, <<>>, 0)
        /\ UNCHANGED <<tokens, now, issued, minted, masterKey, keyVersion, out>>
        /\ UNCHANGED <<resolverVars, lockVars>>

Provider_RedactText ==
    \E cancelled \in BOOLEAN, request \in Pointers(ProviderRequests) :
        \E order \in OrdersOf(patternTable, cancelled, request) :
            Returns("RedactText",
                    Arg("RedactText", cancelled, request = <<>>, LengthOf(request), TRUE),
                    Engine_RedactText(patternTable, tokens, issued, now, cancelled,
                                      request, order))

\* Engine.RestoreText: the context is not consulted.
Provider_RestoreText ==
    \E cancelled \in BOOLEAN, token \in 0..MaxMints :
        LET r == restoreTextInternal(tokens, token, now)
        IN  /\ arg' = Arg("RestoreText", cancelled, FALSE, 0, token \in DOMAIN tokens)
            /\ ret' = Return("RestoreText", r.err, FALSE, <<>>, token, r.text, 0)
            /\ UNCHANGED <<tokens, now, issued, minted, masterKey, keyVersion>>
            /\ UNCHANGED <<out, patternTable>>
            /\ UNCHANGED <<resolverVars, lockVars>>

\* Engine.ApplyPolicyRules: the rules of the request change nothing.
Engine_ApplyPolicyRules ==
    \E cancelled \in BOOLEAN, request \in Pointers(ProviderRequests) :
        \E order \in OrdersOf(patternTable, cancelled, request) :
            Returns("Engine.ApplyPolicyRules",
                    Arg("Engine.ApplyPolicyRules", cancelled, request = <<>>,
                        LengthOf(request), TRUE),
                    IF request = <<>>
                    THEN [err |-> ErrNilEnginePolicyRequest, result |-> <<>>,
                          tokens |-> tokens, issued |-> issued]
                    ELSE Engine_RedactText(patternTable, tokens, issued, now, cancelled,
                                           request, order))

Provider_ApplyPolicyRules ==
    \E cancelled \in BOOLEAN, request \in Pointers(ProviderRequests),
       rules \in PolicyRuleLists :
        \E order \in OrdersOf(patternTable, cancelled, request) :
            Returns("ApplyPolicyRules",
                    Arg("ApplyPolicyRules", cancelled, request = <<>>,
                        LengthOf(request), TRUE),
                    PolicyAwareEngine_ApplyPolicyRules(patternTable, tokens, issued, now,
                                                      cancelled, request, rules, order))

\* The assignments RedactForTenant makes through the PolicyRequest, whose
\* CustomPatterns, Mode and Context are the fields of the *Request it embeds:
\* the Request of the caller as the call leaves it.
WithTenantPolicy(request, tenantID, policy) ==
    LET context == IF request.Context = NoContext
                   THEN Context(<<>>, <<>>, <<>>, <<>>)
                   ELSE request.Context[1]
        metadata == [k \in DOMAIN context.Metadata \cup
                              {"tenant_id", "tenant_policy_version"} |->
                        CASE k = "tenant_id" -> StringValue(<<tenantID>>)
                          [] k = "tenant_policy_version" -> StringValue(<<policy.Version>>)
                          [] OTHER -> context.Metadata[k]]
    IN  [request EXCEPT
            !.CustomPatterns = @ \o policy.CustomPatterns,
            !.Mode = IF @ = "" THEN policy.DefaultMode ELSE @,
            !.Context = <<[context EXCEPT !.ComplianceReqs = policy.ComplianceReqs,
                                          !.Metadata = metadata]>>]

\* The fields of a Request that RedactForTenant assigns to.
TenantFields(request) ==
    [CustomPatterns |-> request.CustomPatterns, Mode |-> request.Mode,
     Context |-> request.Context]

\* TenantAwareEngine.RedactForTenant. policy is what GetTenantPolicy finds for
\* the tenant. With a policy the fields of the request are read and written
\* through the PolicyRequest that embeds it, whether it is nil or not. out
\* holds those fields of the Request of the caller before and after the call,
\* if it was given one.
RedactForTenant ==
    \E cancelled \in BOOLEAN, tenantID \in {"", "t1"},
       request \in Pointers(ProviderRequests), policy \in TenantPolicies :
        \E order \in OrdersOf(patternTable, cancelled, request) :
            LET written == tenantID # "" /\ policy # <<>> /\ request # <<>>
                after == IF written
                         THEN <<WithTenantPolicy(request[1], tenantID, policy[1])>>
                         ELSE request
            IN  ReturnsLeaving(
                    "RedactForTenant",
                    Arg("RedactForTenant", cancelled, request = <<>>,
                        LengthOf(request), tenantID # ""),
                    IF tenantID = ""
                    THEN [err |-> ErrEmptyTenantID, result |-> <<>>,
                          tokens |-> tokens, issued |-> issued]
                    ELSE IF policy = <<>>
                    THEN Engine_RedactText(patternTable, tokens, issued, now, cancelled,
                                           request, order)
                    ELSE IF request = <<>>
                    THEN [err |-> PanicNilDereference, result |-> <<>>,
                          tokens |-> tokens, issued |-> issued]
                    ELSE PolicyAwareEngine_ApplyPolicyRules(
                             patternTable, tokens, issued, now, cancelled,
                             after, policy[1].Rules, order),
                    IF request = <<>> THEN <<>>
                    ELSE <<[before |-> TenantFields(request[1]),
                            after |-> TenantFields(after[1])]>>)

ProviderNext ==
    \/ Provider_AddCustomPattern
    \/ Provider_RedactText
    \/ Provider_RestoreText
    \/ Engine_ApplyPolicyRules
    \/ Provider_ApplyPolicyRules
    \/ RedactForTenant

SpecProvider == ProviderInit /\ [][ProviderNext]_vars

\* ---- redaction of one text, again and again; out holds the last outcome
\* Built-in patterns of which two have the same priority and match the same
\* spans: "h" stands for 32 hexadecimal digits that also read as a Bitcoin
\* address.
initDefaultPatterns ==
    [t \in {TypeZipCode, TypeSSN, TypeMD5Hex, TypeBTCAddress} |->
        CASE t = TypeZipCode -> <<"5">>
          [] t = TypeSSN -> <<"5", "5">>
          [] OTHER -> <<"h">>]

RedactTexts == SeqsUpTo(Chars \cup {"h"}, MaxTextLen)

\* The rules applied to a result: one pattern, which matches what the base
\* redaction left of the text, one field, each mode.
RedactRules ==
    {PolicyRule("R", <<pattern>>, <<"content">>, mode, 0, TRUE) :
        pattern \in {<<"x">>},
        mode \in {ModeReplace, ModeMask, ModeRemove, ModeTokenize, ModeHash,
                  ModeEncrypt, ModeLLM}}

RedactInit ==
    /\ ResolverIdle
    /\ VaultNew
    /\ NoGoroutines
    /\ patternTable = initDefaultPatterns
    /\ arg \in [Text : RedactTexts]
    /\ out = <<>>

\* Engine.redactTextInternal on the text, the range over the pattern table in
\* one of its orders.
Redact ==
    /\ \E order \in Orders(DOMAIN patternTable) :
          out' = <<[op |-> "redactTextInternal",
                    result |-> redactTextInternal(patternTable, arg.Text, order)]>>
    /\ UNCHANGED <<arg, patternTable>>
    /\ UNCHANGED <<resolverVars, vaultVars, lockVars>>

\* applyPolicyRulesToResult on the result of the base redaction.
ApplyRules ==
    /\ \E order \in Orders(DOMAIN patternTable), rule \in RedactRules :
          LET base == redactTextInternal(patternTable, arg.Text, order)
              applied == applyPolicyRulesToResult(base, <<rule>>, NoContext)
          IN  out' = <<[op |-> "applyPolicyRulesToResult", rule |-> rule,
                        base |-> base, panicked |-> applied.panicked,
                        result |-> applied.result]>>
    /\ UNCHANGED <<arg, patternTable>>
    /\ UNCHANGED <<resolverVars, vaultVars, lockVars>>

RedactNext ==
    \/ Redact
    \/ ApplyRules

SpecRedact == RedactInit /\ [][RedactNext]_vars

\* ---- the rules of a policy: conditions, fields and malformed patterns
\* Each behaviour is one call on one request: the text and the context are
\* drawn at the start, the call leaves its outcome in out.
PolicyTexts == {<<"x">>, <<"5", "x">>}

\* The contexts of a request: none, or one whose Field is the content or the
\* metadata, with and without a department in its Metadata.
Contexts ==
    {NoContext} \cup
    {<<Context(<<"x">>, field, <<>>, metadata)>> :
        field \in {<<"content">>, <<"metadata">>},
        metadata \in {<<>>, [k \in {"department"} |-> StringValue(<<"x">>)]}}

\* The conditions of a rule: on a field of the context, on a key that only
\* Metadata can hold, and on a key no context of Contexts holds.
Conditions ==
    {PolicyCondition(field, operator, value) :
        field \in {"source", "department", "region"},
        operator \in {"eq", "ne", "contains", "regex", "in", "gt"},
        value \in {StringValue(<<"x">>), StringValue(<<"5">>),
                   ListValue(<<StringValue(<<"x">>)>>)}}

ConditionLists ==
    {<<>>} \cup {<<c>> : c \in Conditions} \cup {<<c, d>> : c, d \in Conditions}

\* The pattern lists of a rule and of a request: \"x\" compiles, BadRegex does not.
PatternLists == {<<(<<"x">>)>>, <<BadRegex>>, <<BadRegex, <<"x">>>>, <<(<<"x">>), BadRegex>>}

PolicyInit ==
    /\ ResolverIdle
    /\ VaultNew
    /\ NoGoroutines
    /\ patternTable = patterns
    /\ arg \in [Text : PolicyTexts, Context : Contexts]
    /\ out = <<>>

\* applyPolicyRulesToResult with one rule, enabled or not, under conditions.
ApplyConditionalRule ==
    /\ out = <<>>
    /\ \E order \in Orders(DOMAIN patternTable), enabled \in BOOLEAN,
          conditions \in ConditionLists :
          LET rule == [PolicyRule("R", <<(<<"x">>)>>, <<"content">>, ModeReplace, 0, enabled)
                          EXCEPT !.Conditions = conditions]
              base == redactTextInternal(patternTable, arg.Text, order)
              applied == applyPolicyRulesToResult(base, <<rule>>, arg.Context)
          IN  out' = <<[op |-> "conditions", rule |-> rule, base |-> base,
                        panicked |-> applied.panicked, result |-> applied.result]>>
    /\ UNCHANGED <<arg, patternTable>>
    /\ UNCHANGED <<resolverVars, vaultVars, lockVars>>

\* applyPolicyRulesToResult with one rule whose patterns may be malformed.
ApplyRulePatterns ==
    /\ out = <<>>
    /\ \E order \in Orders(DOMAIN patternTable), rulePatterns \in PatternLists :
          LET rule == PolicyRule("R", rulePatterns, <<"content">>, ModeReplace, 0, TRUE)
              base == redactTextInternal(patternTable, arg.Text, order)
              applied == applyPolicyRulesToResult(base, <<rule>>, arg.Context)
          IN  out' = <<[op |-> "patterns", rule |-> rule, base |-> base,
                        panicked |-> applied.panicked, result |-> applied.result]>>
    /\ UNCHANGED <<arg, patternTable>>
    /\ UNCHANGED <<resolverVars, vaultVars, lockVars>>

\* The request of a RedactText with those custom patterns.
CustomRequest(text, sources) ==
    [Text |-> text, Reversible |-> FALSE, TTL |-> 0,
     CustomPatterns |-> [i \in 1..Len(sources) |->
                            [Pattern |-> sources[i], Replacement |-> <<>>]]]

\* Engine.RedactText with custom patterns that may be malformed. The text
\* is one the engine accepts.
RedactCustomPatterns ==
    /\ out = <<>>
    /\ Len(arg.Text) <= maxTextLength
    /\ \E order \in Orders(DOMAIN patternTable), sources \in PatternLists :
          LET request == CustomRequest(arg.Text, sources)
              outcome == Engine_RedactText(patternTable, tokens, issued, now, FALSE,
                                           <<request>>, order)
          IN  out' = <<[op |-> "RedactText", request |-> request, order |-> order,
                        err |-> outcome.err, result |-> outcome.result]>>
    /\ UNCHANGED <<arg, patternTable>>
    /\ UNCHANGED <<resolverVars, vaultVars, lockVars>>

PolicyNext ==
    \/ ApplyConditionalRule
    \/ ApplyRulePatterns
    \/ RedactCustomPatterns

SpecPolicy == PolicyInit /\ [][PolicyNext]_vars

\* ---- ValidatePolicy
\* A ValidationError (the Message is left out). Field is the name of the
\* field and, for an element of a list, its index from 0.
ValidationError(rule, field, index, code) ==
    [Rule |-> rule, Field |-> [name |-> field, index |-> index], Code |-> code]

When(condition, error) == IF condition THEN <<error>> ELSE <<>>

\* isValidMode of the PolicyAwareEngine.
isValidMode(mode) ==
    mode \in {ModeReplace, ModeMask, ModeRemove, ModeTokenize, ModeHash, ModeEncrypt,
              ModeLLM}

\* The body of the loop of Engine.ValidatePolicy.
Engine_ValidateRule(rule) ==
    When(rule.Name = "", ValidationError(rule.Name, "", 0, "EMPTY_RULE_NAME")) \o
    When(Len(rule.Patterns) = 0, ValidationError(rule.Name, "", 0, "NO_PATTERNS")) \o
    When(rule.Priority < 0, ValidationError(rule.Name, "", 0, "INVALID_PRIORITY")) \o
    When(rule.Mode \notin {ModeReplace, ModeMask, ModeRemove, ModeTokenize, ModeHash,
                           ModeEncrypt},
         ValidationError(rule.Name, "", 0, "INVALID_MODE"))

\* The loop over the patterns of a rule: an empty pattern is reported and not
\* compiled.
RECURSIVE ValidatePatternsFrom(_, _)
ValidatePatternsFrom(rule, i) ==
    IF i > Len(rule.Patterns) THEN <<>>
    ELSE (IF rule.Patterns[i] = <<>>
          THEN <<ValidationError(rule.Name, "patterns", i - 1, "EMPTY_PATTERN")>>
          ELSE When(~Compile(rule.Patterns[i]).ok,
                    ValidationError(rule.Name, "patterns", i - 1, "INVALID_REGEX")))
         \o ValidatePatternsFrom(rule, i + 1)

RECURSIVE ValidateConditionsFrom(_, _)
ValidateConditionsFrom(rule, i) ==
    IF i > Len(rule.Conditions) THEN <<>>
    ELSE When(rule.Conditions[i].Field = "",
              ValidationError(rule.Name, "conditions.field", i - 1,
                              "MISSING_CONDITION_FIELD")) \o
         When(rule.Conditions[i].Operator = "",
              ValidationError(rule.Name, "conditions.operator", i - 1,
                              "MISSING_CONDITION_OPERATOR")) \o
         ValidateConditionsFrom(rule, i + 1)

\* The body of the loop of PolicyAwareEngine.ValidatePolicy: after an empty
\* name the loop continues with the next rule.
PolicyAwareEngine_ValidateRule(rule) ==
    IF rule.Name = ""
    THEN <<ValidationError(rule.Name, "", 0, "MISSING_NAME")>>
    ELSE ValidatePatternsFrom(rule, 1) \o
         When(Len(rule.Fields) = 0,
              ValidationError(rule.Name, "fields", 0, "MISSING_FIELDS")) \o
         When(~isValidMode(rule.Mode),
              ValidationError(rule.Name, "mode", 0, "INVALID_MODE")) \o
         ValidateConditionsFrom(rule, 1)

RECURSIVE Engine_ValidatePolicy(_)
Engine_ValidatePolicy(rules) ==
    IF rules = <<>> THEN <<>>
    ELSE Engine_ValidateRule(Head(rules)) \o Engine_ValidatePolicy(Tail(rules))

RECURSIVE PolicyAwareEngine_ValidatePolicy(_)
PolicyAwareEngine_ValidatePolicy(rules) ==
    IF rules = <<>> THEN <<>>
    ELSE PolicyAwareEngine_ValidateRule(Head(rules)) \o
         PolicyAwareEngine_ValidatePolicy(Tail(rules))

\* The rules put to validation: each field right or wrong in each way.
ValidatedRules ==
    {PolicyRule(name, rulePatterns, fields, mode, priority, TRUE) :
        name \in {"", "R"},
        rulePatterns \in {<<>>, <<(<<"x">>)>>, <<BadRegex>>, <<(<<"x">>), BadRegex>>},
        fields \in {<<>>, <<"content">>},
        mode \in {ModeReplace, ModeLLM, "invalid"},
        priority \in {-1, 0}}

ValidatedRuleLists ==
    {<<>>} \cup {<<r>> : r \in ValidatedRules} \cup
    {<<r, s>> : r \in ValidatedRules, s \in ValidatedRules}

ValidateInit ==
    /\ ResolverIdle
    /\ VaultNew
    /\ NoGoroutines
    /\ patternTable = patterns
    /\ arg \in [rules : ValidatedRuleLists]
    /\ out = <<>>

ValidatePolicy_Engine ==
    /\ out' = <<[provider |-> "Engine", errors |-> Engine_ValidatePolicy(arg.rules)]>>
    /\ UNCHANGED <<arg, patternTable>>
    /\ UNCHANGED <<resolverVars, vaultVars, lockVars>>

ValidatePolicy_PolicyAwareEngine ==
    /\ out' = <<[provider |-> "PolicyAwareEngine",
                 errors |-> PolicyAwareEngine_ValidatePolicy(arg.rules)]>>
    /\ UNCHANGED <<arg, patternTable>>
    /\ UNCHANGED <<resolverVars, vaultVars, lockVars>>

ValidateNext ==
    \/ ValidatePolicy_Engine
    \/ ValidatePolicy_PolicyAwareEngine

SpecValidate == ValidateInit /\ [][ValidateNext]_vars

\* ---- properties of the resolver
Length(r) == r.End - r.Start

\* The half-open ranges [Start,End) of a and b have an offset in common.
Intersect(a, b) ==
    \E x \in 0..MaxPos : /\ a.Start <= x /\ x < a.End
                         /\ b.Start <= x /\ x < b.End

Returned == rpc = "done"

\* The candidate at index i of the input overlaps the one at index j.
InputOverlap(i, j) == i # j /\ redactionsOverlap(redactions[i], redactions[j])

\* C1: whatever candidates the resolver is given, in whatever order, the list
\* it returns holds no two redactions whose ranges [Start,End) intersect.
C1_NoOverlapInOutput ==
    Returned =>
        \A i, j \in 1..Len(resolved) :
            i # j => ~Intersect(resolved[i], resolved[j])

\* C1 witness: overlapping candidates were supplied, the scan loop ran, and
\* more than one redaction is returned.
C1_Witness ==
    /\ Returned
    /\ Len(resolved) >= 2
    /\ compared >= 1
    /\ \E i, j \in 1..Len(redactions) : InputOverlap(i, j)

\* The accepted list never offers the incoming candidate two overlaps: the
\* candidates arrive by ascending Start, so two accepted entries that both
\* reach past the incoming Start would overlap each other.
AtMostOneAcceptedOverlaps ==
    (rpc = "scan" /\ ri <= Len(work)) =>
        Cardinality(Overlapping(resolved, work[ri])) <= 1

StrictlyLongest(i) ==
    \A j \in 1..Len(redactions) :
        InputOverlap(i, j) => Length(redactions[i]) > Length(redactions[j])

\* C3: a candidate strictly longer than every candidate it overlaps is in the
\* returned list, wherever it stands in the input.
C3_LongestSurvives ==
    Returned =>
        \A i \in 1..Len(redactions) :
            StrictlyLongest(i) => redactions[i] \in Range(resolved)

\* C3 witness: the longest candidate stands between two shorter candidates
\* that overlap it, one supplied before it and one after, and it is returned
\* while they are not.
C3_Witness ==
    /\ Returned
    /\ \E i, j, k \in 1..Len(redactions) :
           /\ j < i /\ i < k
           /\ InputOverlap(i, j) /\ InputOverlap(i, k)
           /\ StrictlyLongest(i)
           /\ redactions[i] \in Range(resolved)
           /\ redactions[j] \notin Range(resolved)
           /\ redactions[k] \notin Range(resolved)

\* The candidates at i and j overlap each other and nothing else, and are
\* equally long.
TiedPair(i, j) ==
    /\ InputOverlap(i, j)
    /\ Length(redactions[i]) = Length(redactions[j])
    /\ \A k \in 1..Len(redactions) \ {i, j} :
           ~InputOverlap(k, i) /\ ~InputOverlap(k, j)

\* C4: of two overlapping candidates of equal length (that overlap no third
\* candidate) the one whose type has the higher priority is returned and the
\* other is not, whichever of the two is supplied first.
C4_PriorityBreaksTie ==
    Returned =>
        \A i, j \in 1..Len(redactions) :
            (/\ TiedPair(i, j)
             /\ getTypePriority(redactions[i].Type) > getTypePriority(redactions[j].Type))
            => /\ redactions[i] \in Range(resolved)
               /\ redactions[j] \notin Range(resolved)

\* C4 witness: a generic phone candidate is supplied before a UK phone
\* candidate over the same span, and the UK one is the one returned.
C4_Witness ==
    /\ Returned
    /\ \E i, j \in 1..Len(redactions) :
           /\ i < j
           /\ TiedPair(i, j)
           /\ redactions[i].Type = TypePhone
           /\ redactions[j].Type = TypeUKPhoneNumber
           /\ redactions[i].Start = redactions[j].Start
           /\ redactions[j] \in Range(resolved)
           /\ redactions[i] \notin Range(resolved)

\* ------------------------------------------------------- the token vault
\* The token a successful RedactText returned ("" when it minted none).
ReturnedToken == ret.result[1].Token

RedactTextSucceeded == ret.op = "RedactText" /\ ret.err = ErrNone

\* C5: restoring a token minted over T, at any instant up to its expiry,
\* returns exactly T (the text of the request, not the redacted text), whatever
\* was minted, restored or swept in between: a record restores to the text it
\* was minted over, and no record leaves the map before its expiry has passed.
\* An instant up to the expiry exists only for a token minted with a positive
\* ttl (a zero ttl stands for the default, which is positive).
C5_RoundTrip ==
    /\ []((/\ ret.op = "RestoreText"
           /\ ret.token \in DOMAIN tokens
           /\ now <= tokens[ret.token].Expires)
          => (/\ ret.err = ErrNone
              /\ ret.text = <<minted[ret.token].Text>>))
    /\ [][\A t \in DOMAIN tokens :
             /\ t \notin DOMAIN tokens' => tokens[t].Expires < now
             /\ t \in DOMAIN tokens' => tokens'[t] = tokens[t]]_vars

\* The first token is restored unexpired after a second token over another
\* text was minted and swept, and the text differs from its redacted form.
C5_Witness ==
    /\ ret.op = "RestoreText"
    /\ ret.token = 1
    /\ issued = 2
    /\ DOMAIN tokens = {1}
    /\ now <= tokens[1].Expires
    /\ minted[1].Text = <<"5">>
    /\ minted[2].Text # minted[1].Text
    /\ ret.err = ErrNone
    /\ ret.text = <<minted[1].Text>>

\* C6: a RestoreText of a token whose record is still in the map although
\* now > Expires fails and returns no text.
C6_ExpiredTokenIsRejected ==
    [][(/\ ret'.op = "RestoreText"
        /\ now' = now
        /\ ret'.token \in DOMAIN tokens
        /\ now > tokens[ret'.token].Expires)
       => (/\ ret'.err # ErrNone
           /\ ret'.text = <<>>)]_vars

\* C7 as stated: every successful RedactText of a reversible request returns
\* a non-empty token whose record holds the text of the request.
C7_ReversibleAlwaysMintsToken ==
    (RedactTextSucceeded /\ ret.reversible)
    => (/\ ReturnedToken # NoToken
        /\ ReturnedToken \in DOMAIN tokens
        /\ tokens[ReturnedToken].OriginalText = minted[ReturnedToken].Text)

\* C7: a successful RedactText of a reversible request that found at least one
\* redaction returns a non-empty token whose record holds the text of the
\* request; one that found none returns the empty token.
C7_ReversibleWithRedactionsMintsToken ==
    (RedactTextSucceeded /\ ret.reversible)
    => IF Len(ret.result[1].Redactions) > 0
       THEN /\ ReturnedToken # NoToken
            /\ ReturnedToken \in DOMAIN tokens
            /\ tokens[ReturnedToken].OriginalText = minted[ReturnedToken].Text
            /\ tokens[ReturnedToken].OriginalText = ret.result[1].OriginalText
       ELSE ReturnedToken = NoToken

\* A reversible request whose text was rewritten got the second token, and the
\* record holds the text as it was before the rewrite.
C7_Witness ==
    /\ RedactTextSucceeded
    /\ ret.reversible
    /\ ReturnedToken = 2
    /\ ret.result[1].RedactedText # ret.result[1].OriginalText
    /\ tokens[2].OriginalText = ret.result[1].OriginalText

\* A step of CleanupExpiredTokens (or a step that changes nothing).
CleanupStep == ret'.op = "CleanupExpiredTokens" /\ now' = now

\* The previous call minted a token whose expiry has not passed.
FreshToken ==
    /\ RedactTextSucceeded
    /\ ReturnedToken # NoToken
    /\ ReturnedToken \in DOMAIN tokens
    /\ ~(tokens[ReturnedToken].Expires < now)

RotateStep == ret'.op = "RotateKeys" /\ now' = now

C10_DecryptFailureSurfaced ==
    (/\ ret.op = "RestoreText"
     /\ ret.token \in DOMAIN tokens
     /\ now <= tokens[ret.token].Expires
     /\ tokens[ret.token].EncryptedData.Key # masterKey)
    => (/\ ret.err = ErrDecrypt
        /\ ret.err # ErrInvalidToken
        /\ ret.err # ErrNone
        /\ ret.text = <<>>)

\* A record minted before a rotation was asked for before its expiry.
C10_Witness ==
    /\ ret.op = "RestoreText"
    /\ ret.token \in DOMAIN tokens
    /\ now <= tokens[ret.token].Expires
    /\ tokens[ret.token].KeyVersion < keyVersion
    /\ ret.err = ErrDecrypt
    /\ ret.text = <<>>

\* ------------------------------------------------------------ goroutines
\* C11: every access to the token map is made under Engine.mutex, a write under
\* the write lock; no access coincides with a write by another goroutine, and
\* a restore or a stats call never sees an entry in the middle of a write.
C11_TokenMapUnderLock ==
    /\ \A g \in Goroutines :
          /\ WritesTokens(g) => mutex.writer = g
          /\ ReadsTokens(g) => (g \in mutex.readers \/ mutex.writer = g)
          /\ goroutines[g].seen \in {"nothing", "absent", "present"}
    /\ ~TokenRace
    /\ mutex.writer # NoWriter => mutex.readers = {}

\* A restore waits at RLock while a mint is in the middle of its write.
C11_Witness ==
    \E g, h \in Goroutines :
        /\ goroutines[g].call = "RestoreText" /\ At(g, "RLock")
        /\ goroutines[h].call = "RedactText" /\ At(h, "storing")
        /\ slot = "torn"

\* C12: the pattern table is never written while another call reads or writes
\* it.
C12_PatternTableNeverRaced == ~PatternRace

\* ---- properties of the entry points
\* C13: AddCustomPattern with a regular expression that does not compile
\* returns an error and leaves the pattern table as it was, so that the number
\* of patterns is the same; every pattern of the table compiles, and every
\* redaction a later call reports is of a type of the table.
C13_InvalidPatternRejected ==
    /\ [][(arg'.op = "AddCustomPattern" /\ ~arg'.valid) =>
             /\ ret'.err = ErrInvalidRegex
             /\ patternTable' = patternTable
             /\ Cardinality(DOMAIN patternTable') = Cardinality(DOMAIN patternTable)]_vars
    /\ [](/\ \A t \in DOMAIN patternTable : Compile(patternTable[t]).ok
          /\ ret.result # <<>> =>
                \A i \in 1..Len(ret.result[1].Redactions) :
                    ret.result[1].Redactions[i].Type \in DOMAIN patternTable \cup {TypeCustom})

\* An invalid pattern has just been rejected; the table holds the built-in
\* patterns only.
C13_Witness ==
    /\ arg.op = "AddCustomPattern" /\ ~arg.valid
    /\ ret.err = ErrInvalidRegex
    /\ patternTable = patterns

\* C14: RedactText and ApplyPolicyRules, given a nil request or a text longer
\* than the maximum, return an error and no result and leave the token map as it
\* was; a text no longer than the maximum is never answered with the length
\* error.
C14_NilOrTooLongFailsRequest ==
    [][arg'.op \in {"RedactText", "ApplyPolicyRules", "Engine.ApplyPolicyRules"} =>
          /\ (arg'.isNil \/ arg'.length > maxTextLength) =>
                /\ ret'.err # ErrNone
                /\ ret'.result = <<>>
                /\ tokens' = tokens
          /\ (~arg'.isNil /\ arg'.length <= maxTextLength) => ret'.err # ErrTooLong]_vars

\* ApplyPolicyRules has refused a text over the maximum while the token map
\* holds a record.
C14_Witness ==
    /\ arg.op = "ApplyPolicyRules" /\ ~arg.cancelled /\ ~arg.isNil
    /\ arg.length > maxTextLength
    /\ ret.err = ErrTooLong /\ ret.result = <<>>
    /\ DOMAIN tokens # {}

\* C15: a call of an entry point with a cancelled context returns the
\* cancellation error and no result and leaves the token map as it was.
C15_CancelledContextReturnsAtOnce ==
    [][arg'.cancelled =>
          /\ IsCancellation(ret'.err)
          /\ ret'.result = <<>> /\ ret'.text = <<>>
          /\ tokens' = tokens]_vars

\* ---- properties of the request's custom patterns
\* C21: every redaction listed in a result shows in the redacted text: for
\* each match of a custom pattern of the request the replacement stands in the
\* text and the matched characters do not stand at the match's place.
C21_RedactionsReflectedInText ==
    (RedactTextSucceeded /\ ret.result # <<>>) =>
        LET r == ret.result[1]
        IN  \A i \in 1..Len(r.Redactions) :
                /\ Occurs(r.Redactions[i].Replacement, r.RedactedText)
                /\ r.Redactions[i].Type = TypeCustom =>
                      Slice(r.RedactedText, r.Redactions[i].Start, r.Redactions[i].End)
                          # r.Redactions[i].Original

\* ---- properties of ValidatePolicy
\* The requirements on a rule: a name, a pattern that compiles, a field, a
\* priority that is not negative, one of the six modes.
RuleRequirements(rule) ==
    <<rule.Name # "",
      \E i \in 1..Len(rule.Patterns) :
          rule.Patterns[i] # <<>> /\ Compile(rule.Patterns[i]).ok,
      Len(rule.Fields) >= 1,
      rule.Priority >= 0,
      rule.Mode \in {ModeReplace, ModeMask, ModeRemove, ModeTokenize, ModeHash,
                     ModeEncrypt}>>

Broken(rule) == {k \in 1..5 : ~RuleRequirements(rule)[k]}

\* The violations a provider looks for in a rule, each taken by itself: the
\* errors it returns for the rule when no other check has failed before.
ViolationsOf(provider, rule) ==
    IF provider = "Engine" THEN Engine_ValidateRule(rule)
    ELSE When(rule.Name = "", ValidationError(rule.Name, "", 0, "MISSING_NAME")) \o
         PolicyAwareEngine_ValidateRule([rule EXCEPT !.Name = "R"])

RECURSIVE CountViolations(_, _)
CountViolations(provider, rules) ==
    IF rules = <<>> THEN 0
    ELSE Len(ViolationsOf(provider, Head(rules))) + CountViolations(provider, Tail(rules))

\* C17: the list ValidatePolicy returns holds every violation of every rule: as
\* many errors as the rules have violations, none left out because of another.
C17_EveryViolationReported ==
    out # <<>> => Len(out[1].errors) = CountViolations(out[1].provider, arg.rules)

\* C18: ValidatePolicy returns the empty list exactly when every rule meets the
\* five requirements, and one error for each rule when each rule breaks
\* exactly one of them.
C18_EmptyListIffWellFormed ==
    out # <<>> =>
        /\ (out[1].errors = <<>>) <=>
               (\A i \in 1..Len(arg.rules) : Broken(arg.rules[i]) = {})
        /\ (\A i \in 1..Len(arg.rules) : Cardinality(Broken(arg.rules[i])) = 1) =>
               Len(out[1].errors) = Len(arg.rules)

\* ---- properties of the rewriting
\* The text with each span [Start, End) of spans, which do not overlap,
\* replaced by the span's Replacement, read from offset p on.
RECURSIVE RewrittenFrom(_, _, _)
RewrittenFrom(text, spans, p) ==
    IF p >= Len(text) THEN <<>>
    ELSE IF \E i \in 1..Len(spans) : spans[i].Start = p
         THEN LET r == spans[CHOOSE i \in 1..Len(spans) : spans[i].Start = p]
              IN  r.Replacement \o RewrittenFrom(text, spans, r.End)
         ELSE <<text[p + 1]>> \o RewrittenFrom(text, spans, p + 1)

RedactOutcome(o) == o # <<>> /\ o[1].op = "redactTextInternal"

\* C16: redacting the same text again, with the same pattern table, gives the
\* same redacted text and the same set of redactions, whatever the order in
\* which the table is ranged over.
C16_RedactionDeterministic ==
    [][(RedactOutcome(out) /\ RedactOutcome(out')) =>
          /\ out'[1].result.RedactedText = out[1].result.RedactedText
          /\ Range(out'[1].result.Redactions) = Range(out[1].result.Redactions)]_vars

\* C19: the redactions of a result are listed, and were applied, by descending
\* Start, and the redacted text is the original text with each span replaced by
\* its replacement and everything else kept in order.
C19_RewriteByDescendingStart ==
    RedactOutcome(out) =>
        LET r == out[1].result
        IN  /\ \A i \in 1..(Len(r.Redactions) - 1) :
                  r.Redactions[i].Start > r.Redactions[i + 1].Start
            /\ r.RedactedText = RewrittenFrom(arg.Text, r.Redactions, 0)

\* Two redactions were spliced in, the later one of the text first, and the
\* text has changed its length.
C19_Witness ==
    /\ RedactOutcome(out)
    /\ Len(out[1].result.Redactions) = 2
    /\ out[1].result.Redactions[1].Start > 0
    /\ Len(out[1].result.RedactedText) # Len(arg.Text)

\* C20: applying a rule whose pattern matches the redacted text in several
\* places replaces each match by the replacement of the rule's mode, keeps the
\* rest of the text and never indexes beyond the text.
C20_EveryOccurrenceReplaced ==
    (out # <<>> /\ out[1].op = "applyPolicyRulesToResult") =>
        LET o == out[1]
            m == FindAllStringIndex(o.rule.Patterns[1], o.base.RedactedText)
            spans == [i \in 1..Len(m) |->
                         [Start |-> m[i].Start, End |-> m[i].End,
                          Replacement |->
                              generatePolicyReplacement(
                                  o.rule.Mode,
                                  Slice(o.base.RedactedText, m[i].Start, m[i].End),
                                  o.rule.Name)]]
        IN  /\ ~o.panicked
            /\ o.result.RedactedText = RewrittenFrom(o.base.RedactedText, spans, 0)


Unconditional(rule) == [rule EXCEPT !.Conditions = <<>>]

\* C23: the patterns of a rule are run only when the rule is enabled and
\* every one of its conditions holds of the context of the request; an empty
\* list of conditions passes; a rule that is disabled, or one of whose
\* conditions does not hold, leaves the result as it was.
C23_RuleRunsIffEnabledAndAllConditionsHold ==
    (out # <<>> /\ out[1].op = "conditions") =>
        LET o == out[1]
            holds == \A i \in 1..Len(o.rule.Conditions) :
                         evaluateCondition(o.rule.Conditions[i], arg.Context)
        IN  /\ ~o.panicked
            /\ o.result =
                   IF o.rule.Enabled /\ holds
                   THEN applyPolicyRulesToResult(o.base, <<Unconditional(o.rule)>>,
                                                 arg.Context).result
                   ELSE o.base

C23_Witness ==
    /\ out # <<>>
    /\ out[1].op = "conditions"
    /\ out[1].rule.Enabled
    /\ Len(out[1].rule.Conditions) = 2
    /\ out[1].rule.Conditions[1] # out[1].rule.Conditions[2]
    /\ out[1].result # out[1].base

\* The field is none of the fields of a Context and no key of the Metadata
\* of this context.
UnknownTo(field, context) ==
    /\ field \notin {"source", "field", "content_type", "language", "user_role",
                      "compliance_reqs"}
    /\ context # NoContext => field \notin DOMAIN context[1].Metadata

\* C24: a condition on a field the context of the request does not know
\* never matches, whatever its operator, and a rule that carries such a
\* condition is not applied: the result is left as it was.
C24_UnknownFieldNeverMatches ==
    (out # <<>> /\ out[1].op = "conditions") =>
        \A i \in 1..Len(out[1].rule.Conditions) :
            UnknownTo(out[1].rule.Conditions[i].Field, arg.Context) =>
                /\ ~evaluateCondition(out[1].rule.Conditions[i], arg.Context)
                /\ out[1].result = out[1].base

\* The pattern compiles.
WellFormed(source) == Compile(source).ok
WellFormedCustom(pattern) == Compile(pattern.Pattern).ok

\* C25: a malformed custom pattern of the request, and a malformed pattern of
\* a policy rule, is skipped without failing the call: the call succeeds and
\* returns the redactions the remaining, well-formed patterns produce.
C25_MalformedPatternSkipped ==
    out # <<>> =>
        LET o == out[1]
        IN  CASE o.op = "patterns" ->
                   /\ ~o.panicked
                   /\ o.result =
                          applyPolicyRulesToResult(
                              o.base,
                              <<[o.rule EXCEPT !.Patterns = SelectSeq(@, WellFormed)]>>,
                              arg.Context).result
              [] o.op = "RedactText" ->
                   /\ o.err = ErrNone
                   /\ o.result =
                          Engine_RedactText(
                              patternTable, tokens, issued, now, FALSE,
                              <<[o.request EXCEPT
                                    !.CustomPatterns = SelectSeq(@, WellFormedCustom)]>>,
                              o.order).result
              [] OTHER -> TRUE

C25_Witness ==
    /\ out # <<>>
    /\ out[1].op = "RedactText"
    /\ Len(out[1].request.CustomPatterns) = 2
    /\ ~WellFormedCustom(out[1].request.CustomPatterns[1])
    /\ out[1].err = ErrNone
    /\ \E k \in 1..Len(out[1].result[1].Redactions) :
           out[1].result[1].Redactions[k].Type = TypeCustom

\* ---- properties of RedactForTenant
\* C28: RedactForTenant does not modify the Request of its caller: after the
\* call its CustomPatterns, Mode and Context are as they were before.
C28_RequestUnmodified ==
    out # <<>> =>
        /\ out[1].after.CustomPatterns = out[1].before.CustomPatterns
        /\ out[1].after.Mode = out[1].before.Mode
        /\ out[1].after.Context = out[1].before.Context

\* C29: RedactForTenant with a nil request, a tenant and a context that is
\* not cancelled returns the invalid-input error of a nil request, whether
\* the tenant has a policy or not.
C29_NilRequestIsInvalidInput ==
    (arg.op = "RedactForTenant" /\ arg.isNil /\ arg.valid /\ ~arg.cancelled) =>
        ret.err \in {ErrNilRequest, ErrNilPolicyRequest}

\* ---- properties of the policy cache
\* C26: under any interleaving of GetTenantPolicy, SetTenantPolicy,
\* DeleteTenantPolicy and RefreshTenantPolicy, once every call has returned
\* the cache holds no entry for the tenant or the policy now in the store; a
\* deleted policy is not served from the cache.
C26_CacheAgreesWithStore ==
    (\A g \in Goroutines : At(g, "idle")) =>
        (tenantPolicies = <<>> \/ tenantPolicies = policyStore)

\* ---- properties of the key version of a token record
\* The version of the passphrase the key was derived from.
VersionOfKey(key) == key.Passphrase[2]

C30_GetBestStrategyReturns ==
    \A g \in Goroutines :
        (goroutines[g].call = "GetBestStrategy") ~> At(g, "idle")

====
